---- MODULE Spec2Model ----
(***************************************************************************)
(* Model of the combat-log ingestion pipeline of src/index.tsx             *)
(* (FileUpload.processFile): format detection, Standard-mode and           *)
(* Narrative-mode field extraction, identity resolution and the fact       *)
(* accumulator; and of the App state that HpChart renders (the loaded      *)
(* data, the selected units, the chart points and the single-unit          *)
(* summary); and of the four cumulative charts (skill, damage, healing,    *)
(* shield) with the three damage flags of App and their change handlers.   *)
(*                                                                         *)
(* Strings are sequences of characters.  An ASCII character is the         *)
(* one-character string itself; a CJK character of the log dialect is      *)
(* written as its code point, e.g. "u4f24" for U+4F24.                     *)
(*                                                                         *)
(* JavaScript numbers are pairs [n, d] read as the ratio n/d with d a      *)
(* power of ten in lowest form; d = 0 encodes the three non-finite values: *)
(* [1,0] = Infinity, [-1,0] = -Infinity, [0,0] = NaN.                      *)
(***************************************************************************)
EXTENDS Integers, Sequences, FiniteSets, TLC

\* ------------------------------------------------------------------ bounds
\* Largest number of data rows after a Standard-mode header row.
MaxDataRows ==
    3

\* Largest number of rows of a Narrative-mode file.
MaxNarrativeRows ==
    3

\* Largest number of rows of a Narrative-mode file that mixes effect rows
\* and health rows.
MaxMixedRows ==
    2

\* Largest number of health entries of a loaded ProcessedData.
MaxHpEntries ==
    3

\* Largest number of facts of a log loaded for a cumulative chart.
MaxFacts ==
    3

\* ----------------------------------------------------------------- numbers
Num(n, d) ==
    [n |-> n, d |-> d]

NaN ==
    Num(0, 0)

Infinity ==
    Num(1, 0)

NegInfinity ==
    Num(-1, 0)

isNaN(x) ==
    x.n = 0 /\ x.d = 0

\* a < b of JavaScript: false whenever an operand is NaN.
Lt(a, b) ==
    /\ ~isNaN(a)
    /\ ~isNaN(b)
    /\ IF a.d = 0 \/ b.d = 0
         THEN IF a.d = 0 /\ b.d = 0 THEN a.n < b.n
              ELSE IF a.d = 0 THEN a.n < 0
              ELSE b.n > 0
         ELSE a.n * b.d < b.n * a.d

\* a > b of JavaScript.
Gt(a, b) ==
    Lt(b, a)

RECURSIVE Normalize(_, _)
Normalize(n, d) ==
    IF d > 1 /\ n % 10 = 0 THEN Normalize(n \div 10, d \div 10) ELSE Num(n, d)

Neg(x) ==
    Num(0 - x.n, x.d)

\* ----------------------------------------------------------------- strings
Digits ==
    <<"0", "1", "2", "3", "4", "5", "6", "7", "8", "9">>

IsDigit(c) ==
    \E k \in 1..10 : Digits[k] = c

DigitVal(c) ==
    (CHOOSE k \in 1..10 : Digits[k] = c) - 1

\* \s of the regular expressions and the white space String.trim removes.
IsSpace(c) ==
    c \in {" ", "\t"}

UpperCase ==
    <<"A", "B", "C", "D", "E", "F", "G", "H", "I", "J", "K", "L", "M",
      "N", "O", "P", "Q", "R", "S", "T", "U", "V", "W", "X", "Y", "Z">>

LowerCase ==
    <<"a", "b", "c", "d", "e", "f", "g", "h", "i", "j", "k", "l", "m",
      "n", "o", "p", "q", "r", "s", "t", "u", "v", "w", "x", "y", "z">>

\* Case folding of the /i flag.
ToLower(c) ==
    IF \E k \in 1..26 : UpperCase[k] = c
      THEN LowerCase[CHOOSE k \in 1..26 : UpperCase[k] = c]
      ELSE c

Fold(s) ==
    [k \in 1..Len(s) |-> ToLower(s[k])]

Min(S) ==
    CHOOSE m \in S : \A o \in S : m <= o

Max(S) ==
    CHOOSE m \in S : \A o \in S : m >= o

\* The literal pat occurs in s at position i (1-based).
LitAt(s, i, pat) ==
    /\ i >= 1
    /\ i + Len(pat) - 1 <= Len(s)
    /\ \A k \in 1..Len(pat) : s[i + k - 1] = pat[k]

\* String.prototype.includes.
includes(s, pat) ==
    \E i \in 1..(Len(s) + 1) : LitAt(s, i, pat)

\* String.prototype.trim.
trim(s) ==
    LET keep == {k \in 1..Len(s) : ~IsSpace(s[k])}
    IN  IF keep = {} THEN <<>> ELSE SubSeq(s, Min(keep), Max(keep))

\* Position after the run of white space that starts at i (\s*).
RECURSIVE SkipSpace(_, _)
SkipSpace(s, i) ==
    IF i <= Len(s) /\ IsSpace(s[i]) THEN SkipSpace(s, i + 1) ELSE i

\* Position after the run of digits that starts at i (\d+ is greedy).
RECURSIVE SkipDigits(_, _)
SkipDigits(s, i) ==
    IF i <= Len(s) /\ IsDigit(s[i]) THEN SkipDigits(s, i + 1) ELSE i

\* parseInt(digits, 10) of a run of decimal digits.
RECURSIVE parseInt(_)
parseInt(ds) ==
    IF ds = <<>> THEN 0
    ELSE 10 * parseInt(SubSeq(ds, 1, Len(ds) - 1)) + DigitVal(ds[Len(ds)])

RECURSIVE Pow10(_)
Pow10(k) ==
    IF k = 0 THEN 1 ELSE 10 * Pow10(k - 1)

InfinityLit ==
    <<"I", "n", "f", "i", "n", "i", "t", "y">>

\* The longest prefix of s from position i that is an unsigned decimal
\* literal (digits, optional fraction) or the word Infinity: its value and
\* the position after it; NaN and i when there is none.
DecimalAt(s, i) ==
    LET j  == SkipDigits(s, i)
        k  == IF j <= Len(s) /\ s[j] = "." THEN SkipDigits(s, j + 1) ELSE j
        ip == parseInt(SubSeq(s, i, j - 1))
        fr == SubSeq(s, j + 1, k - 1)
    IN  IF LitAt(s, i, InfinityLit)
          THEN [val |-> Infinity, end |-> i + Len(InfinityLit)]
        ELSE IF j = i /\ k <= j + 1
          THEN [val |-> NaN, end |-> i]
        ELSE IF k <= j + 1
          THEN [val |-> Num(ip, 1), end |-> k]
        ELSE [val |-> Normalize(ip * Pow10(Len(fr)) + parseInt(fr), Pow10(Len(fr))),
              end |-> k]

\* An optionally signed literal at position i.
SignedAt(s, i) ==
    LET sg == i <= Len(s) /\ s[i] \in {"+", "-"}
        r  == DecimalAt(s, IF sg THEN i + 1 ELSE i)
    IN  IF isNaN(r.val) THEN [val |-> NaN, end |-> i]
        ELSE IF sg /\ s[i] = "-" THEN [val |-> Neg(r.val), end |-> r.end]
        ELSE r

\* Number(string): the whole trimmed string must be a literal; the empty
\* string converts to 0.
Number(s) ==
    LET t == trim(s)
        r == SignedAt(t, 1)
    IN  IF t = <<>> THEN Num(0, 1)
        ELSE IF r.end = Len(t) + 1 THEN r.val
        ELSE NaN

\* parseFloat(string): the longest numeric prefix after leading white space.
parseFloat(s) ==
    SignedAt(s, SkipSpace(s, 1)).val

\* ------------------------------------------------- regular expressions
\* The result of String.prototype.match with one capture group (\d+).
NoMatch ==
    [found |-> FALSE, val |-> 0]

Match(v) ==
    [found |-> TRUE, val |-> v]

\* /LABEL(\d+)/ : the leftmost place where the literal label is directly
\* followed by a digit; the capture is the whole digit run.  The labels of
\* the damage, healing and shield patterns hold no cased letter, so their
\* /i flag changes nothing.
MatchLabel(val, label) ==
    LET P == {i \in 1..Len(val) :
                 /\ LitAt(val, i, label)
                 /\ SkipDigits(val, i + Len(label)) > i + Len(label)}
        d == Min(P) + Len(label)
    IN  IF P = {} THEN NoMatch
        ELSE Match(parseInt(SubSeq(val, d, SkipDigits(val, d) - 1)))

\* key\s*=\s*(\d+) anchored at position i of s (s already case-folded):
\* the position of the first captured digit, 0 when there is no match.
KeyEqNumAt(s, i, key) ==
    LET b == SkipSpace(s, i + Len(key))
        d == SkipSpace(s, b + 1)
    IN  IF /\ LitAt(s, i, key)
           /\ b <= Len(s)
           /\ s[b] = "="
           /\ SkipDigits(s, d) > d
          THEN d
          ELSE 0

\* uid\s*=\s*(\d+) with the i flag.  m[1] is kept as the digit string.
uidLabel ==
    <<"u", "i", "d">>

uidRegex(val) ==
    LET s == Fold(val)
        P == {i \in 1..Len(s) : KeyEqNumAt(s, i, uidLabel) > 0}
        d == KeyEqNumAt(s, Min(P), uidLabel)
    IN  IF P = {} THEN <<>> ELSE SubSeq(val, d, SkipDigits(val, d) - 1)

\* (?:^|[\s,;{("])(?:HP|hp|Health|current_hp|curhp|<U+751F U+547D>)\s*=\s*(\d+)
\* with the i flag.
hpGenericKeys ==
    { <<"h", "p">>,
      <<"h", "e", "a", "l", "t", "h">>,
      <<"c", "u", "r", "r", "e", "n", "t", "_", "h", "p">>,
      <<"c", "u", "r", "h", "p">>,
      <<"u751f", "u547d">> }

hpGenericDelims ==
    {" ", "\t", ",", ";", "{", "(", "\""}

hpGenericRegex(val) ==
    LET s == Fold(val)
        P == {i \in 1..Len(s) :
                 /\ i = 1 \/ s[i - 1] \in hpGenericDelims
                 /\ \E key \in hpGenericKeys : KeyEqNumAt(s, i, key) > 0}
        q == Min(P)
        d == KeyEqNumAt(s, q, CHOOSE key \in hpGenericKeys : KeyEqNumAt(s, q, key) > 0)
    IN  IF P = {} THEN NoMatch
        ELSE Match(parseInt(SubSeq(val, d, SkipDigits(val, d) - 1)))

\* <U+53D8 U+52A8 U+60C5 U+51B5>.*=>\s*(\d+) : .* is greedy, so the capture
\* follows the last "=>" (followed by digits) after the first marker.
hpChangeMarker ==
    <<"u53d8", "u52a8", "u60c5", "u51b5">>

Arrow ==
    <<"=", ">">>

hpChangeRegex(val) ==
    LET M == {i \in 1..Len(val) : LitAt(val, i, hpChangeMarker)}
        J == {j \in 1..Len(val) :
                 /\ M # {}
                 /\ j >= Min(M) + Len(hpChangeMarker)
                 /\ LitAt(val, j, Arrow)
                 /\ SkipDigits(val, SkipSpace(val, j + 2)) > SkipSpace(val, j + 2)}
        d == SkipSpace(val, Max(J) + 2)
    IN  IF J = {} THEN NoMatch
        ELSE Match(parseInt(SubSeq(val, d, SkipDigits(val, d) - 1)))

\* <U+65BD U+52A0 U+4F24 U+5BB3>=(\d+)
rawDamageLabel ==
    <<"u65bd", "u52a0", "u4f24", "u5bb3", "=">>

rawDamageRegex(val) ==
    MatchLabel(val, rawDamageLabel)

\* <U+5B9E U+9645 U+751F U+547D U+6263 U+9664>=(\d+)
hpDeductionLabel ==
    <<"u5b9e", "u9645", "u751f", "u547d", "u6263", "u9664", "=">>

hpDeductionRegex(val) ==
    MatchLabel(val, hpDeductionLabel)

\* <U+62A4 U+76FE U+6263 U+9664>=(\d+)
shieldDeductionLabel ==
    <<"u62a4", "u76fe", "u6263", "u9664", "=">>

shieldDeductionRegex(val) ==
    MatchLabel(val, shieldDeductionLabel)

\* <U+4F24 U+5BB3>=(\d+)
oldDamageLabel ==
    <<"u4f24", "u5bb3", "=">>

oldDamageRegex(val) ==
    MatchLabel(val, oldDamageLabel)

\* <U+56DE U+590D U+751F U+547D U+503C>=(\d+)
healingLabel ==
    <<"u56de", "u590d", "u751f", "u547d", "u503c", "=">>

healingRegex(val) ==
    MatchLabel(val, healingLabel)

\* <U+6DFB U+52A0 U+62A4 U+76FE U+503C>=(\d+)
shieldAddedLabel ==
    <<"u6dfb", "u52a0", "u62a4", "u76fe", "u503c", "=">>

shieldAddedRegex(val) ==
    MatchLabel(val, shieldAddedLabel)

\* Event-type markers of the narrative dialect.
SkillMarker ==
    <<"u6280", "u80fd", "u91ca", "u653e">>

EffectMarker ==
    <<"u6548", "u679c", "u89e6", "u53d1">>

DamageTargetMarker ==
    <<"u4f24", "u5bb3", "u76ee", "u6807">>

HpChangeMarker ==
    <<"u8840", "u91cf", "u53d8", "u5316">>

UnitCreateMarker ==
    <<"u5355", "u4f4d", "u521b", "u5efa">>

\* Header keywords: /time|date|timestamp/i and so on test whether a keyword
\* occurs anywhere in the case-folded cell.
TestAny(c, keys) ==
    \E key \in keys : includes(Fold(c), key)

DetectTimeKeys ==
    { <<"t", "i", "m", "e">>, <<"d", "a", "t", "e">>,
      <<"t", "i", "m", "e", "s", "t", "a", "m", "p">> }

DetectUnitKeys ==
    { <<"u", "n", "i", "t">>, <<"n", "a", "m", "e">>,
      <<"s", "o", "u", "r", "c", "e">>, <<"p", "l", "a", "y", "e", "r">> }

DetectHpKeys ==
    { <<"h", "p">>, <<"h", "e", "a", "l", "t", "h">>, <<"l", "i", "f", "e">> }

ResolveTimeKeys ==
    DetectTimeKeys \cup { <<"t", "i", "c", "k">>,
                          <<"s", "e", "c", "o", "n", "d", "s">> }

\* The unit resolution pattern without the four detection alternatives.
ResolveUnitKeysActorTarget ==
    { <<"a", "c", "t", "o", "r">>, <<"t", "a", "r", "g", "e", "t">> }

ResolveUnitKeys ==
    DetectUnitKeys \cup { <<"a", "c", "t", "o", "r">>,
                          <<"t", "a", "r", "g", "e", "t">> }

ResolveHpKeys ==
    DetectHpKeys \cup { <<"c", "u", "r", "r", "e", "n", "t", "_", "h", "p">>,
                        <<"c", "u", "r", "h", "p">> }

\* Array.prototype.findIndex: zero-based, -1 when no cell passes.
findIndex(cells, keys) ==
    LET P == {k \in 1..Len(cells) : TestAny(cells[k], keys)}
    IN  IF P = {} THEN -1 ELSE Min(P) - 1

hasStandardHeaders(firstRowStr) ==
    /\ \E k \in 1..Len(firstRowStr) : TestAny(firstRowStr[k], DetectTimeKeys)
    /\ \E k \in 1..Len(firstRowStr) : TestAny(firstRowStr[k], DetectUnitKeys)
    /\ \E k \in 1..Len(firstRowStr) : TestAny(firstRowStr[k], DetectHpKeys)

\* ------------------------------------------------------ fact accumulator
Range(q) ==
    {q[k] : k \in 1..Len(q)}

\* Set.prototype.add on a Set kept in insertion order.
SetAdd(set, u) ==
    IF u \in Range(set) THEN set ELSE Append(set, u)

\* The accumulator that processFile builds before it reads the rows.
EmptyAcc ==
    [ entries              |-> <<>>,
      skillEntries         |-> <<>>,
      effectDamageEntries  |-> <<>>,
      effectHealingEntries |-> <<>>,
      effectShieldEntries  |-> <<>>,
      unitsSet             |-> <<>>,
      minTime              |-> Infinity,
      maxTime              |-> NegInfinity,
      unitMap              |-> <<>> ]

\* Push without the maxTime update.
PushNoMaxTime(acc, coll, e) ==
    [acc EXCEPT ![coll]    = Append(@, e),
                !.unitsSet = SetAdd(@, e.unit),
                !.minTime  = IF Lt(e.time, @) THEN e.time ELSE @]

\* Push without unitsSet.add.
PushNoUnitAdd(acc, coll, e) ==
    [acc EXCEPT ![coll]    = Append(@, e),
                !.minTime  = IF Lt(e.time, @) THEN e.time ELSE @,
                !.maxTime  = IF Gt(e.time, @) THEN e.time ELSE @]

\* The statement group that follows every accepted fact:
\*   coll.push(e); unitsSet.add(e.unit);
\*   if (time < minTime) minTime = time; if (time > maxTime) maxTime = time;
Push(acc, coll, e) ==
    [acc EXCEPT ![coll]    = Append(@, e),
                !.unitsSet = SetAdd(@, e.unit),
                !.minTime  = IF Lt(e.time, @) THEN e.time ELSE @,
                !.maxTime  = IF Gt(e.time, @) THEN e.time ELSE @]

\* Map.prototype.set / has / get on unitMap, a sequence of <<uid, name>>
\* pairs with one pair per uid.
MapHas(m, uid) ==
    \E k \in 1..Len(m) : m[k][1] = uid

MapGet(m, uid) ==
    m[CHOOSE k \in 1..Len(m) : m[k][1] = uid][2]

\* MapSet that keeps an existing binding.
MapSetFirstWins(m, uid, name) ==
    IF MapHas(m, uid) THEN m ELSE Append(m, <<uid, name>>)

MapSet(m, uid, name) ==
    IF MapHas(m, uid)
      THEN [k \in 1..Len(m) |-> IF m[k][1] = uid THEN <<uid, name>> ELSE m[k]]
      ELSE Append(m, <<uid, name>>)

\* ---------------------------------------------------------- standard mode
UndefinedStr ==
    <<"u", "n", "d", "e", "f", "i", "n", "e", "d">>

\* Number(row[idx]): a missing cell is undefined and Number(undefined) is NaN.
NumberOfCell(row, idx) ==
    IF idx >= 0 /\ idx < Len(row) THEN Number(row[idx + 1]) ELSE NaN

\* String(row[idx]): String(undefined) is the nine-letter word "undefined".
StringOfCell(row, idx) ==
    IF idx >= 0 /\ idx < Len(row) THEN row[idx + 1] ELSE UndefinedStr

\* The body of the Standard-mode row loop for one data row.
StandardRowStep(acc, row, tIdx, uIdx, hIdx) ==
    LET time == NumberOfCell(row, tIdx)
        unit == trim(StringOfCell(row, uIdx))
        hp   == NumberOfCell(row, hIdx)
    IN  IF ~isNaN(time) /\ ~isNaN(hp) /\ unit # <<>>
          THEN Push(acc, "entries",
                    [time |-> time, unit |-> unit, hp |-> hp, originalRow |-> row])
          ELSE acc

\* --------------------------------------------------------- narrative mode
\* A scanning loop that leaves with break: of the match results of the
\* cells, in row order, the first that is a match.
FirstMatch(ms) ==
    LET P == {k \in 1..Len(ms) : ms[k].found}
    IN  IF P = {} THEN NoMatch ELSE ms[Min(P)]

\* DamageScan in which every one of the three figures sets foundDamage.
RECURSIVE DamageScanAnyFound(_, _, _)
DamageScanAnyFound(values, k, d) ==
    IF k > Len(values) THEN d
    ELSE LET rMatch == rawDamageRegex(values[k])
             hMatch == hpDeductionRegex(values[k])
             sMatch == shieldDeductionRegex(values[k])
         IN  DamageScanAnyFound(values, k + 1,
               [ rawDamage       |-> IF rMatch.found THEN rMatch.val ELSE d.rawDamage,
                 foundDamage     |-> d.foundDamage \/ rMatch.found
                                       \/ hMatch.found \/ sMatch.found,
                 hpDeduction     |-> IF hMatch.found THEN hMatch.val ELSE d.hpDeduction,
                 shieldDeduction |-> IF sMatch.found THEN sMatch.val ELSE d.shieldDeduction ])

\* The first damage-scanning loop: no break, so a later matching cell
\* overrides an earlier one.
RECURSIVE DamageScan(_, _, _)
DamageScan(values, k, d) ==
    IF k > Len(values) THEN d
    ELSE LET rMatch == rawDamageRegex(values[k])
             hMatch == hpDeductionRegex(values[k])
             sMatch == shieldDeductionRegex(values[k])
         IN  DamageScan(values, k + 1,
               [ rawDamage       |-> IF rMatch.found THEN rMatch.val ELSE d.rawDamage,
                 foundDamage     |-> d.foundDamage \/ rMatch.found,
                 hpDeduction     |-> IF hMatch.found THEN hMatch.val ELSE d.hpDeduction,
                 shieldDeduction |-> IF sMatch.found THEN sMatch.val ELSE d.shieldDeduction ])

\* The backward-compatibility loop over the old damage label, no break.
RECURSIVE OldDamageScan(_, _, _)
OldDamageScan(values, k, d) ==
    IF k > Len(values) THEN d
    ELSE LET match == oldDamageRegex(values[k])
         IN  OldDamageScan(values, k + 1,
               IF match.found
                 THEN [d EXCEPT !.rawDamage = match.val, !.foundDamage = TRUE]
                 ELSE d)

\* DamageFigures without the backward-compatibility loop.
DamageFiguresNoOldLabel(values) ==
    DamageScan(values, 1,
               [rawDamage |-> 0, foundDamage |-> FALSE,
                hpDeduction |-> 0, shieldDeduction |-> 0])

\* The damage figures of a row: the first loop, then the old label when
\* the first loop found no raw damage.
DamageFigures(values) ==
    LET d == DamageScan(values, 1,
               [rawDamage |-> 0, foundDamage |-> FALSE,
                hpDeduction |-> 0, shieldDeduction |-> 0])
    IN  IF d.foundDamage THEN d ELSE OldDamageScan(values, 1, d)

\* 1. time: parseFloat of the first cell, the row index when that is NaN.
RowTime(values, idx) ==
    LET t == IF Len(values) > 0 THEN parseFloat(values[1]) ELSE NaN
    IN  IF isNaN(t) THEN Num(idx, 1) ELSE t

\* 2. the event type.
EventType(values) ==
    IF Len(values) > 2 THEN trim(values[3]) ELSE <<>>

SkillStep(acc, values, time) ==
    IF includes(EventType(values), SkillMarker) /\ Len(values) > 4
         /\ trim(values[4]) # <<>> /\ trim(values[5]) # <<>>
      THEN Push(acc, "skillEntries",
                [time |-> time, unit |-> trim(values[4]), skill |-> trim(values[5])])
      ELSE acc

DamageStep(acc, values, time) ==
    LET u == trim(values[4])
        effectName == trim(values[7])
        d == DamageFigures(values)
    IN  IF Len(values) > 7 /\ trim(values[5]) = DamageTargetMarker
             /\ u # <<>> /\ effectName # <<>> /\ d.foundDamage
          THEN Push(acc, "effectDamageEntries",
                    [time |-> time, unit |-> u, effect |-> effectName,
                     rawDamage |-> d.rawDamage, hpDeduction |-> d.hpDeduction,
                     shieldDeduction |-> d.shieldDeduction])
          ELSE acc

HealingStep(acc, values, time) ==
    LET u == trim(values[4])
        effectName == trim(values[7])
        m == FirstMatch([k \in 1..Len(values) |-> healingRegex(values[k])])
    IN  IF m.found /\ u # <<>> /\ effectName # <<>>
          THEN Push(acc, "effectHealingEntries",
                    [time |-> time, unit |-> u, effect |-> effectName,
                     healing |-> m.val])
          ELSE acc

ShieldStep(acc, values, time) ==
    LET u == trim(values[4])
        effectName == trim(values[7])
        m == FirstMatch([k \in 1..Len(values) |-> shieldAddedRegex(values[k])])
    IN  IF m.found /\ u # <<>> /\ effectName # <<>>
          THEN Push(acc, "effectShieldEntries",
                    [time |-> time, unit |-> u, effect |-> effectName,
                     shieldValue |-> m.val])
          ELSE acc

\* EffectStep in which healing and shield are tried only when the row gave
\* no damage fact.
EffectStepExclusive(acc, values, time) ==
    IF includes(EventType(values), EffectMarker) /\ Len(values) > 6
      THEN IF DamageStep(acc, values, time) # acc
             THEN DamageStep(acc, values, time)
             ELSE ShieldStep(HealingStep(acc, values, time), values, time)
      ELSE acc

EffectStep(acc, values, time) ==
    IF includes(EventType(values), EffectMarker) /\ Len(values) > 6
      THEN ShieldStep(HealingStep(DamageStep(acc, values, time), values, time),
                      values, time)
      ELSE acc

\* HpParse that tries the generic pattern before the change pattern.
HpParseGenericFirst(values) ==
    LET generic == FirstMatch([k \in 1..Len(values) |-> hpGenericRegex(values[k])])
    IN  IF includes(EventType(values), HpChangeMarker)
          THEN IF generic.found THEN generic
               ELSE FirstMatch([k \in 1..Len(values) |-> hpChangeRegex(values[k])])
        ELSE IF includes(EventType(values), UnitCreateMarker)
          THEN generic
        ELSE NoMatch

\* HP parsing: hp and foundHp.
HpParse(values) ==
    LET change == FirstMatch([k \in 1..Len(values) |-> hpChangeRegex(values[k])])
    IN  IF includes(EventType(values), HpChangeMarker)
          THEN IF change.found THEN change ELSE FirstMatch([k \in 1..Len(values) |-> hpGenericRegex(values[k])])
        ELSE IF includes(EventType(values), UnitCreateMarker)
          THEN FirstMatch([k \in 1..Len(values) |-> hpGenericRegex(values[k])])
        ELSE NoMatch

\* The name read from cell 3 of a health-change or unit-create row.
PotentialUnit(values) ==
    LET potentialName == trim(values[4])
    IN  IF /\ \/ includes(EventType(values), HpChangeMarker)
              \/ includes(EventType(values), UnitCreateMarker)
           /\ Len(values) > 3
           /\ potentialName # <<>>
           /\ ~includes(potentialName, <<"=">>)
           /\ ~includes(potentialName, <<"{">>)
          THEN potentialName
          ELSE <<>>

\* The uid of the first cell that carries one, "" when none does.
RowUid(values) ==
    LET P == {k \in 1..Len(values) : uidRegex(values[k]) # <<>>}
    IN  IF P = {} THEN <<>> ELSE uidRegex(values[Min(P)])

\* KnownUnitIn that keeps the last known unit some cell includes (a scan
\* without break).
KnownUnitInLast(set, values) ==
    LET P == {k \in 1..Len(set) :
                 \E c \in 1..Len(values) : includes(values[c], set[k])}
    IN  IF P = {} THEN <<>> ELSE set[Max(P)]

\* The first known unit, in insertion order, that some cell includes.
KnownUnitIn(set, values) ==
    LET P == {k \in 1..Len(set) :
                 \E c \in 1..Len(values) : includes(values[c], set[k])}
    IN  IF P = {} THEN <<>> ELSE set[Min(P)]

\* HealthStep that tries the substring fallback before the uid table.
HealthStepFallbackFirst(acc, row, time) ==
    LET values == row
        h    == HpParse(values)
        unit == PotentialUnit(values)
        uid  == RowUid(values)
        map1 == IF uid # <<>> /\ unit # <<>>
                  THEN MapSet(acc.unitMap, uid, unit) ELSE acc.unitMap
        u2   == IF unit = <<>> /\ Len(acc.unitsSet) > 0 /\ h.found
                  THEN KnownUnitIn(acc.unitsSet, values) ELSE unit
        u3   == IF u2 = <<>> /\ uid # <<>> /\ MapHas(map1, uid)
                  THEN MapGet(map1, uid) ELSE u2
        acc1 == [acc EXCEPT !.unitMap = map1]
    IN  IF h.found /\ h.val # -1 /\ u3 # <<>>
          THEN Push(acc1, "entries",
                    [time |-> time, unit |-> u3, hp |-> Num(h.val, 1),
                     originalRow |-> row])
          ELSE acc1

\* HealthStep that names a unit by its uid while the uid is unbound.
HealthStepUidAsName(acc, row, time) ==
    LET values == row
        h    == HpParse(values)
        unit == PotentialUnit(values)
        uid  == RowUid(values)
        map1 == IF uid # <<>> /\ unit # <<>>
                  THEN MapSet(acc.unitMap, uid, unit) ELSE acc.unitMap
        u2   == IF unit = <<>> /\ uid # <<>>
                  THEN IF MapHas(map1, uid) THEN MapGet(map1, uid) ELSE uid
                  ELSE unit
        u3   == IF u2 = <<>> /\ Len(acc.unitsSet) > 0 /\ h.found
                  THEN KnownUnitIn(acc.unitsSet, values) ELSE u2
        acc1 == [acc EXCEPT !.unitMap = map1]
    IN  IF h.found /\ h.val # -1 /\ u3 # <<>>
          THEN Push(acc1, "entries",
                    [time |-> time, unit |-> u3, hp |-> Num(h.val, 1),
                     originalRow |-> row])
          ELSE acc1

\* uid binding, unit resolution and the HealthEntry of one row.
HealthStep(acc, row, time) ==
    LET values == row
        h    == HpParse(values)
        unit == PotentialUnit(values)
        uid  == RowUid(values)
        map1 == IF uid # <<>> /\ unit # <<>>
                  THEN MapSet(acc.unitMap, uid, unit) ELSE acc.unitMap
        u2   == IF unit = <<>> /\ uid # <<>> /\ MapHas(map1, uid)
                  THEN MapGet(map1, uid) ELSE unit
        u3   == IF u2 = <<>> /\ Len(acc.unitsSet) > 0 /\ h.found
                  THEN KnownUnitIn(acc.unitsSet, values) ELSE u2
        acc1 == [acc EXCEPT !.unitMap = map1]
    IN  IF h.found /\ h.val # -1 /\ u3 # <<>>
          THEN Push(acc1, "entries",
                    [time |-> time, unit |-> u3, hp |-> Num(h.val, 1),
                     originalRow |-> row])
          ELSE acc1

\* The body of rawRows.forEach for the row at zero-based index idx.
NarrativeRowStep(acc, row, idx) ==
    LET values == row
        time   == RowTime(values, idx)
    IN  HealthStep(EffectStep(SkillStep(acc, values, time), values, time),
                   row, time)

\* ------------------------------------------------------------ input rows
\* Candidate first rows of a tabular file.
\* time,unit,hp
HdrTimeUnitHp ==
    << <<"t", "i", "m", "e">>,
       <<"u", "n", "i", "t">>,
       <<"h", "p">> >>

\* tick,Time,Name,HP
HdrTickTimeNameHp ==
    << <<"t", "i", "c", "k">>,
       <<"T", "i", "m", "e">>,
       <<"N", "a", "m", "e">>,
       <<"H", "P">> >>

\* time,hp,unit
HdrTimeHpUnit ==
    << <<"t", "i", "m", "e">>,
       <<"h", "p">>,
       <<"u", "n", "i", "t">> >>

\* date,target,source,life
HdrDateTargetSourceLife ==
    << <<"d", "a", "t", "e">>,
       <<"t", "a", "r", "g", "e", "t">>,
       <<"s", "o", "u", "r", "c", "e">>,
       <<"l", "i", "f", "e">> >>

\* time,actor,hp
HdrTimeActorHp ==
    << <<"t", "i", "m", "e">>,
       <<"a", "c", "t", "o", "r">>,
       <<"h", "p">> >>

\* Data rows of a tabular file.
\* 0,A,100
Data0A100 ==
    << <<"0">>,
       <<"A">>,
       <<"1", "0", "0">> >>

\* 1,A,90
Data1A90 ==
    << <<"1">>,
       <<"A">>,
       <<"9", "0">> >>

\* x,B,50
DataXB50 ==
    << <<"x">>,
       <<"B">>,
       <<"5", "0">> >>

\* 2,B,1.5
Data2BFrac ==
    << <<"2">>,
       <<"B">>,
       <<"1", ".", "5">> >>

\* 3, ,70
Data3Blank70 ==
    << <<"3">>,
       <<" ">>,
       <<"7", "0">> >>

\* 4,100
Data4Short ==
    << <<"4">>,
       <<"1", "0", "0">> >>

\* Infinity,B ,-7
DataInfB ==
    << <<"I", "n", "f", "i", "n", "i", "t", "y">>,
       <<"B", " ">>,
       <<"-", "7">> >>

\* ,80,D,Infinity
Data6Wide ==
    << <<>>,
       <<"8", "0">>,
       <<"D">>,
       <<"I", "n", "f", "i", "n", "i", "t", "y">> >>

\* Rows of the narrative dialect.
\* 650,>t,<U+6548><U+679C><U+89E6><U+53D1>,Cow,<U+4F24><U+5BB3><U+76EE><U+6807>,Wind,Slam_Hit,<U+65BD><U+52A0><U+4F24><U+5BB3>=800
RowSlamHit ==
    << <<"6", "5", "0">>,
       <<">", "t">>,
       <<"u6548", "u679c", "u89e6", "u53d1">>,
       <<"C", "o", "w">>,
       <<"u4f24", "u5bb3", "u76ee", "u6807">>,
       <<"W", "i", "n", "d">>,
       <<"S", "l", "a", "m", "_", "H", "i", "t">>,
       <<"u65bd", "u52a0", "u4f24", "u5bb3", "=", "8", "0", "0">> >>

\* 1,>t,<U+6280><U+80FD><U+91CA><U+653E>,Cow,Slam
RowSkill ==
    << <<"1">>,
       <<">", "t">>,
       <<"u6280", "u80fd", "u91ca", "u653e">>,
       <<"C", "o", "w">>,
       <<"S", "l", "a", "m">> >>

\* 0,>t,<U+5355><U+4F4D><U+521B><U+5EFA>,Wind,uid=2,HP=500
RowCreateWind ==
    << <<"0">>,
       <<">", "t">>,
       <<"u5355", "u4f4d", "u521b", "u5efa">>,
       <<"W", "i", "n", "d">>,
       <<"u", "i", "d", "=", "2">>,
       <<"H", "P", "=", "5", "0", "0">> >>

\* 2,>t,<U+8840><U+91CF><U+53D8><U+5316>,,UID = 2,<U+53D8><U+52A8><U+60C5><U+51B5> hp=500=>470=> 420
RowChangeUid2 ==
    << <<"2">>,
       <<">", "t">>,
       <<"u8840", "u91cf", "u53d8", "u5316">>,
       <<>>,
       <<"U", "I", "D", " ", "=", " ", "2">>,
       <<"u53d8", "u52a8", "u60c5", "u51b5", " ", "h", "p", "=", "5", "0", "0", "=", ">", "4", "7", "0", "=", ">", " ", "4", "2", "0">> >>

\* x,>t,<U+8840><U+91CF><U+53D8><U+5316>,, Cow hit by Wind,{hp=300
RowChangeCowHit ==
    << <<"x">>,
       <<">", "t">>,
       <<"u8840", "u91cf", "u53d8", "u5316">>,
       <<>>,
       <<" ", "C", "o", "w", " ", "h", "i", "t", " ", "b", "y", " ", "W", "i", "n", "d">>,
       <<"{", "h", "p", "=", "3", "0", "0">> >>

\* 4.5,>t,<U+8840><U+91CF><U+53D8><U+5316>,Cow,uid=2,<U+751F><U+547D>=10
RowRebindUid2 ==
    << <<"4", ".", "5">>,
       <<">", "t">>,
       <<"u8840", "u91cf", "u53d8", "u5316">>,
       <<"C", "o", "w">>,
       <<"u", "i", "d", "=", "2">>,
       <<"u751f", "u547d", "=", "1", "0">> >>

\* 5,>t,<U+6548><U+679C><U+89E6><U+53D1>,Wind,<U+4F24><U+5BB3><U+76EE><U+6807>,Cow,Bite,<U+4F24><U+5BB3>=50,<U+5B9E><U+9645><U+751F><U+547D><U+6263><U+9664>=30,<U+62A4><U+76FE><U+6263><U+9664>=20
RowOldDamage ==
    << <<"5">>,
       <<">", "t">>,
       <<"u6548", "u679c", "u89e6", "u53d1">>,
       <<"W", "i", "n", "d">>,
       <<"u4f24", "u5bb3", "u76ee", "u6807">>,
       <<"C", "o", "w">>,
       <<"B", "i", "t", "e">>,
       <<"u4f24", "u5bb3", "=", "5", "0">>,
       <<"u5b9e", "u9645", "u751f", "u547d", "u6263", "u9664", "=", "3", "0">>,
       <<"u62a4", "u76fe", "u6263", "u9664", "=", "2", "0">> >>

\* 6,>t,<U+6548><U+679C><U+89E6><U+53D1>,Cow,<U+4F24><U+5BB3><U+76EE><U+6807>,Wind,Bite,<U+5B9E><U+9645><U+751F><U+547D><U+6263><U+9664>=30
RowHpDeductionOnly ==
    << <<"6">>,
       <<">", "t">>,
       <<"u6548", "u679c", "u89e6", "u53d1">>,
       <<"C", "o", "w">>,
       <<"u4f24", "u5bb3", "u76ee", "u6807">>,
       <<"W", "i", "n", "d">>,
       <<"B", "i", "t", "e">>,
       <<"u5b9e", "u9645", "u751f", "u547d", "u6263", "u9664", "=", "3", "0">> >>

\* 7,>t,<U+6548><U+679C><U+89E6><U+53D1>,Wind, <U+4F24><U+5BB3><U+76EE><U+6807> ,Cow,Mend,<U+65BD><U+52A0><U+4F24><U+5BB3>=1,<U+65BD><U+52A0><U+4F24><U+5BB3>=12,<U+56DE><U+590D><U+751F><U+547D><U+503C>=40,<U+6DFB><U+52A0><U+62A4><U+76FE><U+503C>=25
RowAllThree ==
    << <<"7">>,
       <<">", "t">>,
       <<"u6548", "u679c", "u89e6", "u53d1">>,
       <<"W", "i", "n", "d">>,
       <<" ", "u4f24", "u5bb3", "u76ee", "u6807", " ">>,
       <<"C", "o", "w">>,
       <<"M", "e", "n", "d">>,
       <<"u65bd", "u52a0", "u4f24", "u5bb3", "=", "1">>,
       <<"u65bd", "u52a0", "u4f24", "u5bb3", "=", "1", "2">>,
       <<"u56de", "u590d", "u751f", "u547d", "u503c", "=", "4", "0">>,
       <<"u6dfb", "u52a0", "u62a4", "u76fe", "u503c", "=", "2", "5">> >>

\* 8,>t,<U+6548><U+679C><U+89E6><U+53D1>,Cow,<U+4F24><U+5BB3><U+76EE><U+6807>,Wind,<U+65BD><U+52A0><U+4F24><U+5BB3>=5
RowSevenCells ==
    << <<"8">>,
       <<">", "t">>,
       <<"u6548", "u679c", "u89e6", "u53d1">>,
       <<"C", "o", "w">>,
       <<"u4f24", "u5bb3", "u76ee", "u6807">>,
       <<"W", "i", "n", "d">>,
       <<"u65bd", "u52a0", "u4f24", "u5bb3", "=", "5">> >>

\* 9,>t,<U+6548><U+679C><U+89E6><U+53D1>, ,<U+4F24><U+5BB3><U+76EE><U+6807>,Wind,Slam_Hit,<U+65BD><U+52A0><U+4F24><U+5BB3>=9
RowNoSource ==
    << <<"9">>,
       <<">", "t">>,
       <<"u6548", "u679c", "u89e6", "u53d1">>,
       <<" ">>,
       <<"u4f24", "u5bb3", "u76ee", "u6807">>,
       <<"W", "i", "n", "d">>,
       <<"S", "l", "a", "m", "_", "H", "i", "t">>,
       <<"u65bd", "u52a0", "u4f24", "u5bb3", "=", "9">> >>

\* Infinity,>t,<U+6548><U+679C><U+89E6><U+53D1>,Cow,<U+6CBB><U+7597><U+76EE><U+6807>,Wind,Heal,<U+65BD><U+52A0><U+4F24><U+5BB3>=800
RowOtherTarget ==
    << <<"I", "n", "f", "i", "n", "i", "t", "y">>,
       <<">", "t">>,
       <<"u6548", "u679c", "u89e6", "u53d1">>,
       <<"C", "o", "w">>,
       <<"u6cbb", "u7597", "u76ee", "u6807">>,
       <<"W", "i", "n", "d">>,
       <<"H", "e", "a", "l">>,
       <<"u65bd", "u52a0", "u4f24", "u5bb3", "=", "8", "0", "0">> >>

\* 3,>t,<U+8840><U+91CF><U+53D8><U+5316>,a=b,uid=9,hp=5
RowChangeStruct ==
    << <<"3">>,
       <<">", "t">>,
       <<"u8840", "u91cf", "u53d8", "u5316">>,
       <<"a", "=", "b">>,
       <<"u", "i", "d", "=", "9">>,
       <<"h", "p", "=", "5">> >>

\* 6,>t,<U+8840><U+91CF><U+53D8><U+5316>, ,uid=2 hit by Cow,hp=77
RowChangeUid2Cow ==
    << <<"6">>,
       <<">", "t">>,
       <<"u8840", "u91cf", "u53d8", "u5316">>,
       <<" ">>,
       <<"u", "i", "d", "=", "2", " ", "h", "i", "t", " ", "b", "y", " ", "C", "o", "w">>,
       <<"h", "p", "=", "7", "7">> >>

\* 1,>t,<U+5355><U+4F4D><U+521B><U+5EFA>,Bat,<U+53D8><U+52A8><U+60C5><U+51B5> 1=>2,hp=9
RowCreateChange ==
    << <<"1">>,
       <<">", "t">>,
       <<"u5355", "u4f4d", "u521b", "u5efa">>,
       <<"B", "a", "t">>,
       <<"u53d8", "u52a8", "u60c5", "u51b5", " ", "1", "=", ">", "2">>,
       <<"h", "p", "=", "9">> >>

\* 9,>t,<U+6548><U+679C><U+89E6><U+53D1>,Wind,<U+6CBB><U+7597><U+76EE><U+6807>,Cow,Mend,<U+56DE><U+590D><U+751F><U+547D><U+503C>=40,<U+56DE><U+590D><U+751F><U+547D><U+503C>=41
RowHealOnly ==
    << <<"9">>,
       <<">", "t">>,
       <<"u6548", "u679c", "u89e6", "u53d1">>,
       <<"W", "i", "n", "d">>,
       <<"u6cbb", "u7597", "u76ee", "u6807">>,
       <<"C", "o", "w">>,
       <<"M", "e", "n", "d">>,
       <<"u56de", "u590d", "u751f", "u547d", "u503c", "=", "4", "0">>,
       <<"u56de", "u590d", "u751f", "u547d", "u503c", "=", "4", "1">> >>

\* 9,>t,<U+6548><U+679C><U+89E6><U+53D1>,Cow,<U+4F24><U+5BB3><U+76EE><U+6807>,Cow,Ward,<U+6DFB><U+52A0><U+62A4><U+76FE><U+503C>=5
RowShieldOnly ==
    << <<"9">>,
       <<">", "t">>,
       <<"u6548", "u679c", "u89e6", "u53d1">>,
       <<"C", "o", "w">>,
       <<"u4f24", "u5bb3", "u76ee", "u6807">>,
       <<"C", "o", "w">>,
       <<"W", "a", "r", "d">>,
       <<"u6dfb", "u52a0", "u62a4", "u76fe", "u503c", "=", "5">> >>

\* 8,>t,<U+6548><U+679C><U+89E6><U+53D1>,Wind,<U+56DE><U+590D><U+751F><U+547D><U+503C>=40,<U+6DFB><U+52A0><U+62A4><U+76FE><U+503C>=5
RowShortHeal ==
    << <<"8">>,
       <<">", "t">>,
       <<"u6548", "u679c", "u89e6", "u53d1">>,
       <<"W", "i", "n", "d">>,
       <<"u56de", "u590d", "u751f", "u547d", "u503c", "=", "4", "0">>,
       <<"u6dfb", "u52a0", "u62a4", "u76fe", "u503c", "=", "5">> >>

HeaderRows ==
    {HdrTimeUnitHp, HdrTickTimeNameHp, HdrTimeHpUnit, HdrDateTargetSourceLife, HdrTimeActorHp}

DataRows ==
    {Data0A100,
     Data1A90,
     DataXB50,
     Data2BFrac,
     Data3Blank70,
     Data4Short,
     DataInfB,
     Data6Wide}

\* The rows about skills and effects, and the rows about units and health
\* (the skill row makes Cow a known actor in both).
EffectRows ==
    {RowSlamHit,
     RowSkill,
     RowOldDamage,
     RowHpDeductionOnly,
     RowAllThree,
     RowSevenCells,
     RowNoSource,
     RowOtherTarget,
     RowHealOnly,
     RowShieldOnly,
     RowShortHeal}

HealthRows ==
    {RowSkill,
     RowCreateWind,
     RowChangeUid2,
     RowChangeCowHit,
     RowRebindUid2,
     RowChangeStruct,
     RowChangeUid2Cow,
     RowCreateChange}

NarrativeRows ==
    EffectRows \cup HealthRows

\* The characters of the input rows in ascending UTF-16 code-unit order,
\* the order Array.prototype.sort compares strings by.
CodeUnitOrder ==
    <<" ", "-", ".", "0", "1", "2", "3", "4", "5", "6", "7", "8", "9", "=",
      ">", "A", "B", "C", "D", "H", "I", "M", "N", "P", "S", "T", "U", "W",
      "_", "a", "b", "c", "d", "e", "f", "g", "h", "i", "k", "l", "m", "n",
      "o", "p", "r", "s", "t", "u", "w", "x", "y", "{", "u4f24", "u4f4d",
      "u503c", "u51b5", "u521b", "u52a0", "u52a8", "u5316", "u5355",
      "u53d1", "u53d8", "u547d", "u56de", "u590d", "u5b9e", "u5bb3",
      "u5efa", "u60c5", "u6263", "u6280", "u62a4", "u653e", "u6548",
      "u65bd", "u679c", "u6807", "u6cbb", "u6dfb", "u751f", "u7597",
      "u76ee", "u76fe", "u80fd", "u8840", "u89e6", "u91ca", "u91cf",
      "u9645", "u9664">>

\* All sequences over S of length lo..hi.
SeqsUpTo(S, lo, hi) ==
    UNION {[1..n -> S] : n \in lo..hi}

\* The decoded files: the empty file, a candidate header row followed by
\* data rows, and the narrative logs: logs of effect rows, logs of health
\* rows, and shorter logs that mix the two.
Files ==
    {<<>>}
      \cup {<<h>> \o b : h \in HeaderRows, b \in SeqsUpTo(DataRows, 0, MaxDataRows)}
      \cup SeqsUpTo(EffectRows, 1, MaxNarrativeRows)
      \cup SeqsUpTo(HealthRows, 1, MaxNarrativeRows)
      \cup SeqsUpTo(NarrativeRows, 1, MaxMixedRows)

\* ------------------------------------------------------------------ state
VARIABLES
    rawRows,               \* results.data of the parse being processed
    pc,                    \* position of the complete callback
    i,                     \* zero-based index of the next row to process
    timeIdx, unitIdx, hpIdx,
    entries, skillEntries, effectDamageEntries,
    effectHealingEntries, effectShieldEntries,
    unitsSet, minTime, maxTime, unitMap,
    error,                 \* the argument of the last setError of the run
    onDataLoadedCalls      \* the ProcessedData handed to onDataLoaded

\* App state and what HpChart computes from it.  An optional value (null
\* or a value) is a sequence of length 0 or 1.
VARIABLES
    data,                  \* App: the loaded ProcessedData, <<>> for null
    selectedUnits,         \* App: the selected units, in selection order
    chartData,             \* HpChart: the points of the health chart
    singleUnitStats        \* HpChart: the summary, <<>> for null

\* The rest of the App state, and what the mounted cumulative chart
\* (SkillChart, EffectDamageChart, EffectHealingChart or EffectShieldChart)
\* computes from it.
VARIABLES
    selectedSkills,        \* App: the selected skills, in selection order
    selectedEffects,       \* App: the selected damage effects
    selectedHealingEffects,
    selectedShieldEffects,
    chartMode,             \* App: "hp", "skill", "effect", "healing", "shield"
    dmgModeRaw,            \* App: the three damage components to sum
    dmgModeHp,
    dmgModeShield,
    cumulativeChartData,   \* the chart's {data, keys}, <<>> while none is computed
    counters               \* the counters object of the last aggregation

appVars ==
    <<data, selectedUnits, chartData, singleUnitStats,
      selectedSkills, selectedEffects, selectedHealingEffects,
      selectedShieldEffects, chartMode, dmgModeRaw, dmgModeHp, dmgModeShield,
      cumulativeChartData, counters>>

vars ==
    <<rawRows, pc, i, timeIdx, unitIdx, hpIdx,
      entries, skillEntries, effectDamageEntries,
      effectHealingEntries, effectShieldEntries,
      unitsSet, minTime, maxTime, unitMap, error, onDataLoadedCalls,
      data, selectedUnits, chartData, singleUnitStats,
      selectedSkills, selectedEffects, selectedHealingEffects,
      selectedShieldEffects, chartMode, dmgModeRaw, dmgModeHp, dmgModeShield,
      cumulativeChartData, counters>>

\* The variables of FileUpload.processFile.
fileVars ==
    <<rawRows, pc, i, timeIdx, unitIdx, hpIdx,
      entries, skillEntries, effectDamageEntries,
      effectHealingEntries, effectShieldEntries,
      unitsSet, minTime, maxTime, unitMap, error, onDataLoadedCalls>>

\* The accumulator as one record, and its write-back.
Acc ==
    [ entries              |-> entries,
      skillEntries         |-> skillEntries,
      effectDamageEntries  |-> effectDamageEntries,
      effectHealingEntries |-> effectHealingEntries,
      effectShieldEntries  |-> effectShieldEntries,
      unitsSet             |-> unitsSet,
      minTime              |-> minTime,
      maxTime              |-> maxTime,
      unitMap              |-> unitMap ]

SetAcc(a) ==
    /\ entries' = a.entries
    /\ skillEntries' = a.skillEntries
    /\ effectDamageEntries' = a.effectDamageEntries
    /\ effectHealingEntries' = a.effectHealingEntries
    /\ effectShieldEntries' = a.effectShieldEntries
    /\ unitsSet' = a.unitsSet
    /\ minTime' = a.minTime
    /\ maxTime' = a.maxTime
    /\ unitMap' = a.unitMap

\* Code-unit comparison of two strings.
CodeOf(c) ==
    CHOOSE k \in 1..Len(CodeUnitOrder) : CodeUnitOrder[k] = c

StrLess(a, b) ==
    \/ \E k \in 1..Len(a) :
          /\ k <= Len(b)
          /\ \A j \in 1..(k - 1) : a[j] = b[j]
          /\ CodeOf(a[k]) < CodeOf(b[k])
    \/ /\ Len(a) < Len(b)
       /\ \A j \in 1..Len(a) : a[j] = b[j]

\* Array.from(unitsSet).sort()
SortedUnits(set) ==
    SortSeq(set, StrLess)

\* NoData with the last comparison reversed.
NoDataLastReversed(a) ==
    /\ Len(a.entries) = 0
    /\ Len(a.skillEntries) = 0
    /\ Len(a.effectDamageEntries) = 0
    /\ Len(a.effectHealingEntries) = 0
    /\ Len(a.effectShieldEntries) # 0

\* The final test on the five collections.
NoData(a) ==
    /\ Len(a.entries) = 0
    /\ Len(a.skillEntries) = 0
    /\ Len(a.effectDamageEntries) = 0
    /\ Len(a.effectHealingEntries) = 0
    /\ Len(a.effectShieldEntries) = 0

\* The object passed to onDataLoaded.
ProcessedData(a) ==
    [ entries              |-> a.entries,
      skillEntries         |-> a.skillEntries,
      effectDamageEntries  |-> a.effectDamageEntries,
      effectHealingEntries |-> a.effectHealingEntries,
      effectShieldEntries  |-> a.effectShieldEntries,
      units                |-> SortedUnits(a.unitsSet),
      timeRange            |-> <<a.minTime, a.maxTime>> ]

\* FileUpload before a file is dropped.
InitFile ==
    /\ rawRows = <<>>
    /\ pc = "idle"
    /\ i = 0
    /\ timeIdx = -1
    /\ unitIdx = -1
    /\ hpIdx = -1
    /\ entries = <<>>
    /\ skillEntries = <<>>
    /\ effectDamageEntries = <<>>
    /\ effectHealingEntries = <<>>
    /\ effectShieldEntries = <<>>
    /\ unitsSet = <<>>
    /\ minTime = Infinity
    /\ maxTime = NegInfinity
    /\ unitMap = <<>>
    /\ error = "null"
    /\ onDataLoadedCalls = <<>>

\* The useState initial values of App; no chart is mounted.
Init ==
    /\ InitFile
    /\ data = <<>>
    /\ selectedUnits = <<>>
    /\ chartData = <<>>
    /\ singleUnitStats = <<>>
    /\ selectedSkills = <<>>
    /\ selectedEffects = <<>>
    /\ selectedHealingEffects = <<>>
    /\ selectedShieldEffects = <<>>
    /\ chartMode = "hp"
    /\ dmgModeRaw = TRUE
    /\ dmgModeHp = FALSE
    /\ dmgModeShield = FALSE
    /\ cumulativeChartData = <<>>
    /\ counters = <<>>

\* The complete callback up to the row loops, for any decoded file: the
\* empty-file test, the fresh accumulator, format detection and, in
\* Standard mode, column resolution.
Complete ==
    /\ pc = "idle"
    /\ \E rows \in Files : rawRows' = rows
    /\ SetAcc(EmptyAcc)
    /\ UNCHANGED onDataLoadedCalls
    /\ UNCHANGED appVars
    /\ IF Len(rawRows') = 0
         THEN /\ error' = "empty"
              /\ pc' = "done"
              /\ UNCHANGED <<i, timeIdx, unitIdx, hpIdx>>
       ELSE IF hasStandardHeaders(rawRows'[1])
         THEN /\ timeIdx' = findIndex(rawRows'[1], ResolveTimeKeys)
              /\ unitIdx' = findIndex(rawRows'[1], ResolveUnitKeys)
              /\ hpIdx' = findIndex(rawRows'[1], ResolveHpKeys)
              /\ IF timeIdx' = -1 \/ unitIdx' = -1 \/ hpIdx' = -1
                   THEN /\ error' = "schema"
                        /\ pc' = "done"
                        /\ UNCHANGED i
                   ELSE /\ pc' = "standard"
                        /\ i' = 1
                        /\ UNCHANGED error
         ELSE /\ pc' = "narrative"
              /\ i' = 0
              /\ UNCHANGED <<error, timeIdx, unitIdx, hpIdx>>

\* One iteration of the Standard-mode for loop.
StandardRow ==
    /\ pc = "standard"
    /\ i < Len(rawRows)
    /\ SetAcc(StandardRowStep(Acc, rawRows[i + 1], timeIdx, unitIdx, hpIdx))
    /\ i' = i + 1
    /\ UNCHANGED <<rawRows, pc, timeIdx, unitIdx, hpIdx, error, onDataLoadedCalls>>
    /\ UNCHANGED appVars

\* One call of the rawRows.forEach callback.
NarrativeRow ==
    /\ pc = "narrative"
    /\ i < Len(rawRows)
    /\ SetAcc(NarrativeRowStep(Acc, rawRows[i + 1], i))
    /\ i' = i + 1
    /\ UNCHANGED <<rawRows, pc, timeIdx, unitIdx, hpIdx, error, onDataLoadedCalls>>
    /\ UNCHANGED appVars

\* After the last row: the no-data test, else onDataLoaded and setError(null).
Finish ==
    /\ pc \in {"standard", "narrative"}
    /\ i >= Len(rawRows)
    /\ pc' = "done"
    /\ IF NoData(Acc)
         THEN /\ error' = "nodata"
              /\ UNCHANGED onDataLoadedCalls
         ELSE /\ onDataLoadedCalls' = Append(onDataLoadedCalls, ProcessedData(Acc))
              /\ error' = "null"
    /\ UNCHANGED <<rawRows, i, timeIdx, unitIdx, hpIdx,
                   entries, skillEntries, effectDamageEntries,
                   effectHealingEntries, effectShieldEntries,
                   unitsSet, minTime, maxTime, unitMap>>
    /\ UNCHANGED appVars

Next ==
    \/ Complete
    \/ StandardRow
    \/ NarrativeRow
    \/ Finish

Spec ==
    Init /\ [][Next]_vars

\* ================================================================ HpChart
\* ----------------------------------------------------- loaded data (input)
\* The health entries a load can deliver: unit-create rows of a narrative
\* log, one per unit, time and health value.
HpUnits ==
    {<<"A">>, <<"B">>}

HpTimes ==
    {0, 5, 10}

HpValues ==
    {100, 80}

\* The decimal digits of a natural number.
RECURSIVE DecimalStr(_)
DecimalStr(n) ==
    IF n < 10 THEN <<Digits[n + 1]>>
    ELSE DecimalStr(n \div 10) \o <<Digits[(n % 10) + 1]>>

HpLogRow(t, u, h) ==
    << DecimalStr(t), <<">", "t">>, UnitCreateMarker, u,
       <<"h", "p", "=">> \o DecimalStr(h) >>

HpLogEntry(t, u, h) ==
    [ time        |-> Num(t, 1),
      unit        |-> u,
      hp          |-> Num(h, 1),
      originalRow |-> HpLogRow(t, u, h) ]

HpLogEntries ==
    {HpLogEntry(t, u, h) : t \in HpTimes, u \in HpUnits, h \in HpValues}

\* A skill fact of a third unit, which has no health entry.
SkillOfC ==
    [time |-> Num(0, 1), unit |-> <<"C">>, skill |-> <<"S">>]

RECURSIVE PushAll(_, _, _)
PushAll(acc, es, k) ==
    IF k > Len(es) THEN acc
    ELSE PushAll(Push(acc, "entries", es[k]), es, k + 1)

\* The ProcessedData handed to handleDataLoaded: the health entries in any
\* arrival order, with or without the third unit, never without a fact.
LoadedData ==
    {ProcessedData(a) :
       a \in {acc \in {PushAll(a0, es, 1) :
                         a0 \in {EmptyAcc, Push(EmptyAcc, "skillEntries", SkillOfC)},
                         es \in SeqsUpTo(HpLogEntries, 0, MaxHpEntries)} :
                ~NoData(acc)}}

\* ------------------------------------------------------ numbers, continued
\* a - b of JavaScript.
Sub(a, b) ==
    IF isNaN(a) \/ isNaN(b) THEN NaN
    ELSE IF a.d = 0 /\ b.d = 0
      THEN IF a.n = b.n THEN NaN ELSE a
    ELSE IF a.d = 0 THEN a
    ELSE IF b.d = 0 THEN Neg(b)
    ELSE Normalize(a.n * b.d - b.n * a.d, a.d * b.d)

\* Math.min(...xs) and Math.max(...xs).
RECURSIVE MathMin(_, _)
MathMin(xs, k) ==
    IF k = 0 THEN Infinity
    ELSE LET m == MathMin(xs, k - 1)
         IN  IF isNaN(m) \/ isNaN(xs[k]) THEN NaN
             ELSE IF Lt(xs[k], m) THEN xs[k] ELSE m

RECURSIVE MathMax(_, _)
MathMax(xs, k) ==
    IF k = 0 THEN NegInfinity
    ELSE LET m == MathMax(xs, k - 1)
         IN  IF isNaN(m) \/ isNaN(xs[k]) THEN NaN
             ELSE IF Gt(xs[k], m) THEN xs[k] ELSE m

\* -------------------------------------------------------------- chartData
\* The property name of the time of a point.
TimeKey ==
    <<"t", "i", "m", "e">>

\* obj[key] = v on an object, a function from property names.
SetKey(obj, key, v) ==
    [x \in (DOMAIN obj) \cup {key} |-> IF x = key THEN v ELSE obj[x]]

EmptyObject ==
    [x \in {} |-> NaN]

\* data.filter(e => selectedUnits.includes(e.unit))
RelevantEntries(d, sel) ==
    SelectSeq(d, LAMBDA e : e.unit \in Range(sel))

\* The times of the entries up to the k-th, each once, in arrival order.
RECURSIVE TimesOf(_, _)
TimesOf(rel, k) ==
    IF k = 0 THEN <<>> ELSE SetAdd(TimesOf(rel, k - 1), rel[k].time)

\* Timestamps without the sort.
TimestampsUnsorted(rel) ==
    TimesOf(rel, Len(rel))

\* Array.from(new Set(relevantEntries.map(e => e.time))).sort((a, b) => a - b)
Timestamps(rel) ==
    SortSeq(TimesOf(rel, Len(rel)), Lt)

\* entriesByTime.get(t): the entries of one time, in arrival order.
EventsAt(rel, t) ==
    SelectSeq(rel, LAMBDA e : e.time = t)

\* for (const e of events) currentHp[e.unit] = e.hp
RECURSIVE ApplyEvents(_, _, _)
ApplyEvents(currentHp, events, k) ==
    IF k > Len(events) THEN currentHp
    ELSE ApplyEvents(SetKey(currentHp, events[k].unit, events[k].hp),
                     events, k + 1)

\* The point of one timestamp: selectedUnits.forEach from the k-th unit on.
RECURSIVE Point(_, _, _, _)
Point(point, currentHp, sel, k) ==
    IF k > Len(sel) THEN point
    ELSE Point(IF sel[k] \in DOMAIN currentHp
                 THEN SetKey(point, sel[k], currentHp[sel[k]])
                 ELSE point,
               currentHp, sel, k + 1)

\* HpChartLoop that starts every timestamp from an empty currentHp.
RECURSIVE HpChartLoopNoCarry(_, _, _, _, _, _)
HpChartLoopNoCarry(ts, k, currentHp, rel, sel, result) ==
    IF k > Len(ts) THEN result
    ELSE LET cur2    == ApplyEvents(EmptyObject, EventsAt(rel, ts[k]), 1)
             hasData == \E u \in Range(sel) : u \in DOMAIN cur2
         IN  HpChartLoopNoCarry(ts, k + 1, cur2, rel, sel,
               IF hasData
                 THEN Append(result,
                             Point(SetKey(EmptyObject, TimeKey, ts[k]), cur2, sel, 1))
                 ELSE result)

\* for (const t of timestamps) from the k-th timestamp on.
RECURSIVE HpChartLoop(_, _, _, _, _, _)
HpChartLoop(ts, k, currentHp, rel, sel, result) ==
    IF k > Len(ts) THEN result
    ELSE LET cur2    == ApplyEvents(currentHp, EventsAt(rel, ts[k]), 1)
             hasData == \E u \in Range(sel) : u \in DOMAIN cur2
         IN  HpChartLoop(ts, k + 1, cur2, rel, sel,
               IF hasData
                 THEN Append(result,
                             Point(SetKey(EmptyObject, TimeKey, ts[k]), cur2, sel, 1))
                 ELSE result)

\* HpChart's chartData for the props data = d and selectedUnits = sel.
HpChartData(d, sel) ==
    IF Len(sel) = 0 \/ Len(d) = 0 THEN <<>>
    ELSE HpChartLoop(Timestamps(RelevantEntries(d, sel)), 1, EmptyObject,
                     RelevantEntries(d, sel), sel, <<>>)

\* -------------------------------------------------------- singleUnitStats
\* One insertion of a sort that puts an entry before those of equal time.
InsertByTimeBeforeTies(sorted, e) ==
    LET P == {k \in 1..Len(sorted) : Gt(e.time, sorted[k].time)}
        n == IF P = {} THEN 0 ELSE Max(P)
    IN  SubSeq(sorted, 1, n) \o <<e>> \o SubSeq(sorted, n + 1, Len(sorted))

\* One insertion of a stable sort by time: after every entry whose time is
\* not greater.
InsertByTime(sorted, e) ==
    LET P == {k \in 1..Len(sorted) : ~Lt(e.time, sorted[k].time)}
        n == IF P = {} THEN 0 ELSE Max(P)
    IN  SubSeq(sorted, 1, n) \o <<e>> \o SubSeq(sorted, n + 1, Len(sorted))

\* .sort((a, b) => a.time - b.time), a stable sort.
RECURSIVE SortByTime(_, _)
SortByTime(es, k) ==
    IF k = 0 THEN <<>> ELSE InsertByTime(SortByTime(es, k - 1), es[k])

\* The summary computed from the entries of one unit, in the given order.
StatsOf(unitEntries) ==
    LET hps       == [k \in 1..Len(unitEntries) |-> unitEntries[k].hp]
        currentHp == unitEntries[Len(unitEntries)].hp
        startHp   == unitEntries[1].hp
    IN  [ minHp     |-> MathMin(hps, Len(hps)),
          maxHp     |-> MathMax(hps, Len(hps)),
          currentHp |-> currentHp,
          trend     |-> Sub(currentHp, startHp) ]

\* SingleUnitStats without the sort by time.
SingleUnitStatsUnsorted(d, sel) ==
    IF Len(sel) # 1 THEN <<>>
    ELSE LET unitEntries == SelectSeq(d, LAMBDA e : e.unit = sel[1])
         IN  IF Len(unitEntries) = 0 THEN <<>> ELSE <<StatsOf(unitEntries)>>

\* HpChart's singleUnitStats, <<>> for null.
SingleUnitStats(d, sel) ==
    IF Len(sel) # 1 THEN <<>>
    ELSE LET own         == SelectSeq(d, LAMBDA e : e.unit = sel[1])
             unitEntries == SortByTime(own, Len(own))
         IN  IF Len(unitEntries) = 0 THEN <<>> ELSE <<StatsOf(unitEntries)>>

\* ------------------------------------------------------ cumulative charts
\* SkillChart, EffectDamageChart, EffectHealingChart and EffectShieldChart
\* compute chartData with the same code, up to the label field of the fact
\* (skill or effect) and the increment of one fact.  The relevant entries of
\* a chart are carried as events: the time, the series key and the increment.

\* a + b of JavaScript.
Add(a, b) ==
    Sub(a, Neg(b))

\* x || 0 on a number.
OrZero(x) ==
    IF isNaN(x) \/ x.n = 0 THEN Num(0, 1) ELSE x

\* `${e.unit} - ${e.skill}` and `${e.unit} - ${e.effect}`
SeriesKey(unit, label) ==
    unit \o <<" ", "-", " ">> \o label

\* SkillChart: the relevant entries, each counting 1.
SkillEvents(d, selUnits, selSkills) ==
    LET rel == SelectSeq(d, LAMBDA e : /\ e.unit \in Range(selUnits)
                                       /\ e.skill \in Range(selSkills))
    IN  IF Len(rel) = 0 THEN <<>>
        ELSE [k \in 1..Len(rel) |->
                [ time |-> rel[k].time,
                  key  |-> SeriesKey(rel[k].unit, rel[k].skill),
                  val  |-> Num(1, 1) ]]

\* EffectDamageChart: let val = 0; if (showRaw) val += e.rawDamage || 0; ...
DamageVal(e, showRaw, showHp, showShield) ==
    LET v1 == IF showRaw THEN Add(Num(0, 1), OrZero(e.rawDamage)) ELSE Num(0, 1)
        v2 == IF showHp THEN Add(v1, OrZero(e.hpDeduction)) ELSE v1
    IN  IF showShield THEN Add(v2, OrZero(e.shieldDeduction)) ELSE v2

\* EffectDamageChart: the relevant entries with the sum of the shown
\* components.
DamageEvents(d, selUnits, selEffects, showRaw, showHp, showShield) ==
    LET rel == SelectSeq(d, LAMBDA e : /\ e.unit \in Range(selUnits)
                                       /\ e.effect \in Range(selEffects))
    IN  IF Len(rel) = 0 THEN <<>>
        ELSE [k \in 1..Len(rel) |->
                [ time |-> rel[k].time,
                  key  |-> SeriesKey(rel[k].unit, rel[k].effect),
                  val  |-> DamageVal(rel[k], showRaw, showHp, showShield) ]]

\* EffectHealingChart: the relevant entries with e.healing.
HealingEvents(d, selUnits, selEffects) ==
    LET rel == SelectSeq(d, LAMBDA e : /\ e.unit \in Range(selUnits)
                                       /\ e.effect \in Range(selEffects))
    IN  IF Len(rel) = 0 THEN <<>>
        ELSE [k \in 1..Len(rel) |->
                [ time |-> rel[k].time,
                  key  |-> SeriesKey(rel[k].unit, rel[k].effect),
                  val  |-> rel[k].healing ]]

\* EffectShieldChart: the relevant entries with e.shieldValue.
ShieldEvents(d, selUnits, selEffects) ==
    LET rel == SelectSeq(d, LAMBDA e : /\ e.unit \in Range(selUnits)
                                       /\ e.effect \in Range(selEffects))
    IN  IF Len(rel) = 0 THEN <<>>
        ELSE [k \in 1..Len(rel) |->
                [ time |-> rel[k].time,
                  key  |-> SeriesKey(rel[k].unit, rel[k].effect),
                  val  |-> rel[k].shieldValue ]]

\* relevantEntries.forEach(e => keys.add(key)): the keys of the events up to
\* the k-th, each once, in arrival order.
RECURSIVE KeysOf(_, _)
KeysOf(events, k) ==
    IF k = 0 THEN <<>> ELSE SetAdd(KeysOf(events, k - 1), events[k].key)

\* Array.from(keys).sort(): by UTF-16 code units.
SortedKeys(events) ==
    SortSeq(KeysOf(events, Len(events)), StrLess)

\* Counters that start from the values the previous aggregation left.
ZeroCountersKept(sortedKeys) ==
    [x \in Range(sortedKeys) |->
       IF x \in DOMAIN counters THEN counters[x] ELSE Num(0, 1)]

\* const counters = {}; sortedKeys.forEach(k => counters[k] = 0)
ZeroCounters(sortedKeys) ==
    [x \in Range(sortedKeys) |-> Num(0, 1)]

\* Accumulate that stores the increment instead of adding it.
RECURSIVE AccumulateOverwrite(_, _, _)
AccumulateOverwrite(cnt, events, k) ==
    IF k > Len(events) THEN cnt
    ELSE AccumulateOverwrite(SetKey(cnt, events[k].key, events[k].val),
                             events, k + 1)

\* events.forEach(e => counters[key] = (counters[key] || 0) + val)
RECURSIVE Accumulate(_, _, _)
Accumulate(cnt, events, k) ==
    IF k > Len(events) THEN cnt
    ELSE Accumulate(
           SetKey(cnt, events[k].key,
                  Add(IF events[k].key \in DOMAIN cnt
                        THEN OrZero(cnt[events[k].key])
                        ELSE Num(0, 1),
                      events[k].val)),
           events, k + 1)

\* sortedKeys.forEach(k => { if (counters[k] > 0) point[k] = counters[k] })
\* from the k-th key on.
RECURSIVE CumulativePoint(_, _, _, _)
CumulativePoint(point, cnt, sortedKeys, k) ==
    IF k > Len(sortedKeys) THEN point
    ELSE CumulativePoint(IF Gt(cnt[sortedKeys[k]], Num(0, 1))
                           THEN SetKey(point, sortedKeys[k], cnt[sortedKeys[k]])
                           ELSE point,
                         cnt, sortedKeys, k + 1)

\* CumulativeLoop that starts every timestamp from zeroed counters.
RECURSIVE CumulativeLoopNoCarry(_, _, _, _, _, _)
CumulativeLoopNoCarry(ts, k, cnt, events, sortedKeys, result) ==
    IF k > Len(ts)
      THEN [data |-> result, keys |-> sortedKeys, counters |-> cnt]
    ELSE LET cnt2    == Accumulate(ZeroCounters(sortedKeys),
                                   EventsAt(events, ts[k]), 1)
             hasData == \E x \in Range(sortedKeys) : Gt(cnt2[x], Num(0, 1))
         IN  CumulativeLoopNoCarry(ts, k + 1, cnt2, events, sortedKeys,
               IF hasData
                 THEN Append(result,
                             CumulativePoint(SetKey(EmptyObject, TimeKey, ts[k]),
                                             cnt2, sortedKeys, 1))
                 ELSE result)

\* for (const t of sortedTimestamps) { ... } from the k-th timestamp on, and
\* the return value with the counters object the loop leaves behind.
RECURSIVE CumulativeLoop(_, _, _, _, _, _)
CumulativeLoop(ts, k, cnt, events, sortedKeys, result) ==
    IF k > Len(ts)
      THEN [data |-> result, keys |-> sortedKeys, counters |-> cnt]
    ELSE LET cnt2    == Accumulate(cnt, EventsAt(events, ts[k]), 1)
             hasData == \E x \in Range(sortedKeys) : Gt(cnt2[x], Num(0, 1))
         IN  CumulativeLoop(ts, k + 1, cnt2, events, sortedKeys,
               IF hasData
                 THEN Append(result,
                             CumulativePoint(SetKey(EmptyObject, TimeKey, ts[k]),
                                             cnt2, sortedKeys, 1))
                 ELSE result)

\* return { data: [], keys: [] }, before any counters object exists.
NoChart ==
    [data |-> <<>>, keys |-> <<>>, counters |-> <<>>]

\* The part of chartData after the relevant entries are filtered.
CumulativeChart(events) ==
    IF Len(events) = 0 THEN NoChart
    ELSE CumulativeLoop(Timestamps(events), 1, ZeroCounters(SortedKeys(events)),
                        events, SortedKeys(events), <<>>)

\* SkillChart's chartData.
SkillChartData(d, selUnits, selSkills) ==
    IF Len(selUnits) = 0 \/ Len(d) = 0 THEN NoChart
    ELSE CumulativeChart(SkillEvents(d, selUnits, selSkills))

\* EffectDamageChart's chartData.
EffectDamageChartData(d, selUnits, selEffects, showRaw, showHp, showShield) ==
    IF Len(selUnits) = 0 \/ Len(d) = 0 THEN NoChart
    ELSE CumulativeChart(DamageEvents(d, selUnits, selEffects,
                                      showRaw, showHp, showShield))

\* EffectHealingChart's chartData.
EffectHealingChartData(d, selUnits, selEffects) ==
    IF Len(selUnits) = 0 \/ Len(d) = 0 THEN NoChart
    ELSE CumulativeChart(HealingEvents(d, selUnits, selEffects))

\* EffectShieldChart's chartData.
EffectShieldChartData(d, selUnits, selEffects) ==
    IF Len(selUnits) = 0 \/ Len(d) = 0 THEN NoChart
    ELSE CumulativeChart(ShieldEvents(d, selUnits, selEffects))

\* The chart App mounts for a chart mode other than "hp", with its props.
MountedChartData(mode, d, selUnits, selSkills, selEffects, selHealing, selShield, showRaw, showHp, showShield) ==
    CASE mode = "skill" ->
           SkillChartData(d.skillEntries, selUnits, selSkills)
      [] mode = "effect" ->
           EffectDamageChartData(d.effectDamageEntries, selUnits, selEffects,
                                 showRaw, showHp, showShield)
      [] mode = "healing" ->
           EffectHealingChartData(d.effectHealingEntries, selUnits, selHealing)
      [] mode = "shield" ->
           EffectShieldChartData(d.effectShieldEntries, selUnits, selShield)

\* ------------------------------------------------- inputs of the charts
\* Skill facts of the series A - S, A - T and B - S at the times 0 and 5.
SkillFacts ==
    {[time |-> Num(k[1], 1), unit |-> k[2], skill |-> k[3]] :
       k \in {<<0, (<<"A">>), (<<"S">>)>>, <<5, (<<"A">>), (<<"S">>)>>,
              <<0, (<<"A">>), (<<"T">>)>>, <<5, (<<"A">>), (<<"T">>)>>,
              <<0, (<<"B">>), (<<"S">>)>>}}

\* Damage facts; those of A - T deduct no hp, that of B - S no shield.
DamageFacts ==
    {[time |-> Num(k[1], 1), unit |-> k[2], effect |-> k[3],
      rawDamage |-> Num(k[4], 1), hpDeduction |-> Num(k[5], 1),
      shieldDeduction |-> Num(k[6], 1)] :
       k \in {<<0, (<<"A">>), (<<"S">>), 5, 3, 2>>,
              <<5, (<<"A">>), (<<"S">>), 5, 3, 2>>,
              <<0, (<<"A">>), (<<"T">>), 4, 0, 4>>,
              <<5, (<<"A">>), (<<"T">>), 4, 0, 4>>,
              <<0, (<<"B">>), (<<"S">>), 1, 1, 0>>}}

\* Healing facts; that of A - T heals 0.
HealingFacts ==
    {[time |-> Num(k[1], 1), unit |-> k[2], effect |-> k[3],
      healing |-> Num(k[4], 1)] :
       k \in {<<0, (<<"A">>), (<<"S">>), 7>>, <<5, (<<"A">>), (<<"S">>), 7>>,
              <<5, (<<"A">>), (<<"T">>), 0>>, <<0, (<<"B">>), (<<"S">>), 2>>}}

\* Shield facts; that of A - T adds 0.
ShieldFacts ==
    {[time |-> Num(k[1], 1), unit |-> k[2], effect |-> k[3],
      shieldValue |-> Num(k[4], 1)] :
       k \in {<<0, (<<"A">>), (<<"S">>), 6>>, <<5, (<<"A">>), (<<"S">>), 6>>,
              <<5, (<<"A">>), (<<"T">>), 0>>, <<0, (<<"B">>), (<<"S">>), 1>>}}

RECURSIVE PushFacts(_, _, _, _)
PushFacts(acc, coll, es, k) ==
    IF k > Len(es) THEN acc
    ELSE PushFacts(Push(acc, coll, es[k]), coll, es, k + 1)

\* The ProcessedData of logs with facts of one kind, in any arrival order.
LoadedFacts ==
    {ProcessedData(PushFacts(EmptyAcc, "skillEntries", es, 1)) :
       es \in SeqsUpTo(SkillFacts, 1, MaxFacts)}
      \cup {ProcessedData(PushFacts(EmptyAcc, "effectDamageEntries", es, 1)) :
              es \in SeqsUpTo(DamageFacts, 1, MaxFacts)}
      \cup {ProcessedData(PushFacts(EmptyAcc, "effectHealingEntries", es, 1)) :
              es \in SeqsUpTo(HealingFacts, 1, MaxFacts)}
      \cup {ProcessedData(PushFacts(EmptyAcc, "effectShieldEntries", es, 1)) :
              es \in SeqsUpTo(ShieldFacts, 1, MaxFacts)}

\* The chart mode that shows the facts of such a log.
ModeOf(d) ==
    IF Len(d.skillEntries) > 0 THEN "skill"
    ELSE IF Len(d.effectDamageEntries) > 0 THEN "effect"
    ELSE IF Len(d.effectHealingEntries) > 0 THEN "healing"
    ELSE "shield"

\* What toggleUnit and toggleItem can make of a selection: the items of S
\* without repetition, in any order.
Selections(S) ==
    {q \in SeqsUpTo(S, 0, Cardinality(S)) :
       \A j, k \in 1..Len(q) : j # k => q[j] # q[k]}

\* The skills, or the effects, of the facts of a collection.
LabelsOf(d, mode) ==
    CASE mode = "skill"   -> {d.skillEntries[k].skill : k \in 1..Len(d.skillEntries)}
      [] mode = "effect"  -> {d.effectDamageEntries[k].effect :
                                k \in 1..Len(d.effectDamageEntries)}
      [] mode = "healing" -> {d.effectHealingEntries[k].effect :
                                k \in 1..Len(d.effectHealingEntries)}
      [] mode = "shield"  -> {d.effectShieldEntries[k].effect :
                                k \in 1..Len(d.effectShieldEntries)}

\* ---------------------------------------------------------------- actions
\* What the mounted chart computes when App renders with the new state: a
\* chart is mounted only while data is loaded, HpChart in chart mode "hp"
\* and one of the cumulative charts in any other mode.
Render ==
    /\ IF data' = <<>> \/ chartMode' # "hp"
         THEN chartData' = <<>> /\ singleUnitStats' = <<>>
         ELSE /\ chartData' = HpChartData(data'[1].entries, selectedUnits')
              /\ singleUnitStats' = SingleUnitStats(data'[1].entries, selectedUnits')
    /\ IF data' = <<>> \/ chartMode' = "hp"
         THEN cumulativeChartData' = <<>> /\ counters' = <<>>
         ELSE LET r == MountedChartData(chartMode', data'[1], selectedUnits',
                                        selectedSkills', selectedEffects',
                                        selectedHealingEffects',
                                        selectedShieldEffects',
                                        dmgModeRaw', dmgModeHp', dmgModeShield')
              IN  /\ cumulativeChartData' = <<[data |-> r.data, keys |-> r.keys]>>
                  /\ counters' = r.counters

\* App.handleDataLoaded, called by the FileUpload that is mounted while
\* data is null.
HandleDataLoaded ==
    /\ data = <<>>
    /\ \E processed \in LoadedData :
         /\ data' = <<processed>>
         /\ selectedUnits' =
              IF Len(processed.units) > 0
                THEN SubSeq(processed.units, 1, Min({3, Len(processed.units)}))
                ELSE <<>>
    /\ selectedSkills' = <<>>
    /\ selectedEffects' = <<>>
    /\ selectedHealingEffects' = <<>>
    /\ selectedShieldEffects' = <<>>
    /\ UNCHANGED <<chartMode, dmgModeRaw, dmgModeHp, dmgModeShield>>
    /\ Render
    /\ UNCHANGED fileVars

\* UnitSelector.toggleUnit with onChange = setSelectedUnits.
ToggleUnit ==
    /\ data # <<>>
    /\ \E unit \in Range(data[1].units) :
         selectedUnits' =
           IF unit \in Range(selectedUnits)
             THEN SelectSeq(selectedUnits, LAMBDA u : u # unit)
             ELSE Append(selectedUnits, unit)
    /\ UNCHANGED <<data, selectedSkills, selectedEffects, selectedHealingEffects,
                   selectedShieldEffects, chartMode,
                   dmgModeRaw, dmgModeHp, dmgModeShield>>
    /\ Render
    /\ UNCHANGED fileVars

\* The upload-another-file button: setData(null).
UploadOther ==
    /\ data # <<>>
    /\ data' = <<>>
    /\ UNCHANGED <<selectedUnits, selectedSkills, selectedEffects,
                   selectedHealingEffects, selectedShieldEffects, chartMode,
                   dmgModeRaw, dmgModeHp, dmgModeShield>>
    /\ Render
    /\ UNCHANGED fileVars

NextHp ==
    \/ HandleDataLoaded
    \/ ToggleUnit
    \/ UploadOther

SpecHp ==
    Init /\ [][NextHp]_vars

\* ------------------------------------------ the cumulative charts in App
\* App with a log of one kind of fact loaded, in the chart mode of that
\* kind, after any toggling of units and of the labels of that kind; the
\* chart of the mode is about to be mounted.
InitAgg ==
    /\ InitFile
    /\ data \in {<<processed>> : processed \in LoadedFacts}
    /\ chartMode = ModeOf(data[1])
    /\ selectedUnits \in Selections(Range(data[1].units))
    /\ selectedSkills \in
         IF chartMode = "skill"
           THEN Selections(LabelsOf(data[1], "skill")) ELSE {<<>>}
    /\ selectedEffects \in
         IF chartMode = "effect"
           THEN Selections(LabelsOf(data[1], "effect")) ELSE {<<>>}
    /\ selectedHealingEffects \in
         IF chartMode = "healing"
           THEN Selections(LabelsOf(data[1], "healing")) ELSE {<<>>}
    /\ selectedShieldEffects \in
         IF chartMode = "shield"
           THEN Selections(LabelsOf(data[1], "shield")) ELSE {<<>>}
    /\ dmgModeRaw = TRUE
    /\ dmgModeHp = FALSE
    /\ dmgModeShield = FALSE
    /\ chartData = <<>>
    /\ singleUnitStats = <<>>
    /\ cumulativeChartData = <<>>
    /\ counters = <<>>

\* The chart of the current mode is mounted, or mounted again, and its
\* useMemo computes chartData from the unchanged App state.
MountChart ==
    /\ data # <<>>
    /\ chartMode # "hp"
    /\ UNCHANGED <<data, selectedUnits, selectedSkills, selectedEffects,
                   selectedHealingEffects, selectedShieldEffects, chartMode,
                   dmgModeRaw, dmgModeHp, dmgModeShield>>
    /\ Render
    /\ UNCHANGED fileVars

\* handleRawChange without the two calls that clear the other flags.
handleRawChangeKeepsOthers(checked) ==
    /\ chartMode = "effect"
    /\ dmgModeRaw' = IF ~checked /\ ~dmgModeHp /\ ~dmgModeShield THEN TRUE ELSE checked
    /\ UNCHANGED <<dmgModeHp, dmgModeShield>>
    /\ UNCHANGED <<data, selectedUnits, selectedSkills, selectedEffects,
                   selectedHealingEffects, selectedShieldEffects, chartMode>>
    /\ Render
    /\ UNCHANGED fileVars

\* handleRawChange without the branch that sets the flag again.
handleRawChangeNoFallback(checked) ==
    /\ chartMode = "effect"
    /\ dmgModeRaw' = checked
    /\ dmgModeHp' = IF checked THEN FALSE ELSE dmgModeHp
    /\ dmgModeShield' = IF checked THEN FALSE ELSE dmgModeShield
    /\ UNCHANGED <<data, selectedUnits, selectedSkills, selectedEffects,
                   selectedHealingEffects, selectedShieldEffects, chartMode>>
    /\ Render
    /\ UNCHANGED fileVars

\* App.handleRawChange for a change event of the first check box, which is
\* rendered in chart mode "effect"; the flags read are those of the render.
\*   setDmgModeRaw(checked);
\*   if (checked) { setDmgModeHp(false); setDmgModeShield(false); }
\*   else if (!dmgModeHp && !dmgModeShield) setDmgModeRaw(true);
handleRawChange(checked) ==
    /\ chartMode = "effect"
    /\ dmgModeRaw' = IF ~checked /\ ~dmgModeHp /\ ~dmgModeShield THEN TRUE ELSE checked
    /\ dmgModeHp' = IF checked THEN FALSE ELSE dmgModeHp
    /\ dmgModeShield' = IF checked THEN FALSE ELSE dmgModeShield
    /\ UNCHANGED <<data, selectedUnits, selectedSkills, selectedEffects,
                   selectedHealingEffects, selectedShieldEffects, chartMode>>
    /\ Render
    /\ UNCHANGED fileVars

\* handleHpChange without the branch that falls back to the raw flag.
handleHpChangeNoFallback(checked) ==
    /\ chartMode = "effect"
    /\ dmgModeHp' = checked
    /\ dmgModeRaw' = IF checked THEN FALSE ELSE dmgModeRaw
    /\ UNCHANGED dmgModeShield
    /\ UNCHANGED <<data, selectedUnits, selectedSkills, selectedEffects,
                   selectedHealingEffects, selectedShieldEffects, chartMode>>
    /\ Render
    /\ UNCHANGED fileVars

\* App.handleHpChange.
\*   setDmgModeHp(checked);
\*   if (checked) setDmgModeRaw(false);
\*   else if (!dmgModeShield) setDmgModeRaw(true);
handleHpChange(checked) ==
    /\ chartMode = "effect"
    /\ dmgModeHp' = checked
    /\ dmgModeRaw' = IF checked THEN FALSE
                     ELSE IF ~dmgModeShield THEN TRUE ELSE dmgModeRaw
    /\ UNCHANGED dmgModeShield
    /\ UNCHANGED <<data, selectedUnits, selectedSkills, selectedEffects,
                   selectedHealingEffects, selectedShieldEffects, chartMode>>
    /\ Render
    /\ UNCHANGED fileVars

\* handleShieldChange without the call that clears the raw flag.
handleShieldChangeKeepsRaw(checked) ==
    /\ chartMode = "effect"
    /\ dmgModeShield' = checked
    /\ dmgModeRaw' = IF ~checked /\ ~dmgModeHp THEN TRUE ELSE dmgModeRaw
    /\ UNCHANGED dmgModeHp
    /\ UNCHANGED <<data, selectedUnits, selectedSkills, selectedEffects,
                   selectedHealingEffects, selectedShieldEffects, chartMode>>
    /\ Render
    /\ UNCHANGED fileVars

\* App.handleShieldChange.
\*   setDmgModeShield(checked);
\*   if (checked) setDmgModeRaw(false);
\*   else if (!dmgModeHp) setDmgModeRaw(true);
handleShieldChange(checked) ==
    /\ chartMode = "effect"
    /\ dmgModeShield' = checked
    /\ dmgModeRaw' = IF checked THEN FALSE
                     ELSE IF ~dmgModeHp THEN TRUE ELSE dmgModeRaw
    /\ UNCHANGED dmgModeHp
    /\ UNCHANGED <<data, selectedUnits, selectedSkills, selectedEffects,
                   selectedHealingEffects, selectedShieldEffects, chartMode>>
    /\ Render
    /\ UNCHANGED fileVars

NextAgg ==
    \/ MountChart
    \/ \E checked \in BOOLEAN : handleRawChange(checked)
    \/ \E checked \in BOOLEAN : handleHpChange(checked)
    \/ \E checked \in BOOLEAN : handleShieldChange(checked)

SpecAgg ==
    InitAgg /\ [][NextAgg]_vars

\* ================================================================ claims
\* The times and the units of the facts of an accumulator or of a
\* delivered ProcessedData.
FactTimes(a) ==
    {a.entries[k].time : k \in 1..Len(a.entries)}
      \cup {a.skillEntries[k].time : k \in 1..Len(a.skillEntries)}
      \cup {a.effectDamageEntries[k].time : k \in 1..Len(a.effectDamageEntries)}
      \cup {a.effectHealingEntries[k].time : k \in 1..Len(a.effectHealingEntries)}
      \cup {a.effectShieldEntries[k].time : k \in 1..Len(a.effectShieldEntries)}

FactUnits(a) ==
    {a.entries[k].unit : k \in 1..Len(a.entries)}
      \cup {a.skillEntries[k].unit : k \in 1..Len(a.skillEntries)}
      \cup {a.effectDamageEntries[k].unit : k \in 1..Len(a.effectDamageEntries)}
      \cup {a.effectHealingEntries[k].unit : k \in 1..Len(a.effectHealingEntries)}
      \cup {a.effectShieldEntries[k].unit : k \in 1..Len(a.effectShieldEntries)}

AllFiveEmpty(a) ==
    /\ a.entries = <<>>
    /\ a.skillEntries = <<>>
    /\ a.effectDamageEntries = <<>>
    /\ a.effectHealingEntries = <<>>
    /\ a.effectShieldEntries = <<>>

\* C1: a run over a non-empty row sequence that ends with all five fact
\* collections empty ends in the no-data error without calling
\* onDataLoaded, and onDataLoaded is only ever called with at least one
\* non-empty collection.
C1_NoEmptySuccess ==
    /\ (pc = "done" /\ Len(rawRows) > 0 /\ AllFiveEmpty(Acc))
          => (error = "nodata" /\ onDataLoadedCalls = <<>>)
    /\ \A k \in 1..Len(onDataLoadedCalls) : ~AllFiveEmpty(onDataLoadedCalls[k])

C1_Witness ==
    /\ pc = "done"
    /\ Len(rawRows) > 1
    /\ AllFiveEmpty(Acc)
    /\ error = "nodata"
    /\ onDataLoadedCalls = <<>>

\* minTime <= t <= maxTime.
Within(t, lo, hi) ==
    /\ ~isNaN(t)
    /\ ~Lt(t, lo)
    /\ ~Gt(t, hi)

\* C2: after any prefix of the rows every fact appended so far has
\* minTime <= time <= maxTime, minTime never increases and maxTime never
\* decreases, and every fact of a delivered result lies within its
\* timeRange.
C2_TimeRange ==
    /\ [](\A t \in FactTimes(Acc) : Within(t, minTime, maxTime))
    /\ [](\A k \in 1..Len(onDataLoadedCalls) :
             \A t \in FactTimes(onDataLoadedCalls[k]) :
                Within(t, onDataLoadedCalls[k].timeRange[1],
                          onDataLoadedCalls[k].timeRange[2]))
    /\ [][~Gt(minTime', minTime) /\ ~Lt(maxTime', maxTime)]_vars

C2_Witness ==
    /\ Len(onDataLoadedCalls) = 1
    /\ Cardinality(FactTimes(onDataLoadedCalls[1])) >= 3
    /\ Lt(minTime, maxTime)
    /\ Infinity \in FactTimes(Acc)

\* C3: after any prefix of the rows the actor set holds the unit of every
\* fact appended so far, and the delivered units list holds every unit of
\* every delivered fact.
C3_ActorSuperset ==
    /\ FactUnits(Acc) \subseteq Range(unitsSet)
    /\ \A k \in 1..Len(onDataLoadedCalls) :
          FactUnits(onDataLoadedCalls[k]) \subseteq Range(onDataLoadedCalls[k].units)

C3_Witness ==
    /\ Len(onDataLoadedCalls) = 1
    /\ Cardinality(FactUnits(onDataLoadedCalls[1])) >= 2
    /\ skillEntries # <<>>
    /\ entries # <<>>

\* C4: every emitted fact has a non-empty unit that was read or resolved
\* from the log, never a placeholder, also for Standard-mode rows shorter
\* than the unit column index.
C4_UnitFromLog ==
    FactUnits(Acc) \subseteq
        UNION {{trim(rawRows[r][c]) : c \in 1..Len(rawRows[r])} :
                  r \in 1..Len(rawRows)} \ {<<>>}

\* C5: the hp of every HealthEntry is a finite integer.
C5_HpFiniteInteger ==
    \A k \in 1..Len(entries) : entries[k].hp.d = 1

\* The cell of a data row at a zero-based column index exists.
HasCell(row, idx) ==
    idx >= 0 /\ idx < Len(row)

\* What C6 accepts: the time and the health cell parse as numbers and the
\* trimmed unit cell is non-empty.
C6_Accepts(row) ==
    /\ HasCell(row, timeIdx) /\ ~isNaN(Number(row[timeIdx + 1]))
    /\ HasCell(row, hpIdx) /\ ~isNaN(Number(row[hpIdx + 1]))
    /\ HasCell(row, unitIdx) /\ trim(row[unitIdx + 1]) # <<>>

\* The result of the example of C6.
C6_Example ==
    (rawRows = <<HdrTimeUnitHp, Data0A100, Data1A90, DataXB50>> /\ pc = "done")
       => /\ Len(onDataLoadedCalls) = 1
          /\ Len(onDataLoadedCalls[1].entries) = 2
          /\ onDataLoadedCalls[1].units = << <<"A">> >>

\* C6: in Standard mode the header row is never a fact; a data row becomes
\* a HealthEntry only if its time and health cells parse as numbers and its
\* trimmed unit cell is non-empty; any other data row changes no
\* collection, not the actor set, not the time range and raises no error.
C6_StandardRows ==
    /\ [](pc = "standard" => Len(entries) <= i - 1)
    /\ []C6_Example
    /\ [][(pc = "standard" /\ i' = i + 1) =>
            IF C6_Accepts(rawRows[i + 1])
              THEN /\ Len(entries') = Len(entries) + 1
                   /\ entries'[Len(entries')].originalRow = rawRows[i + 1]
              ELSE UNCHANGED <<entries, skillEntries, effectDamageEntries,
                               effectHealingEntries, effectShieldEntries,
                               unitsSet, minTime, maxTime, error>>]_vars

\* The keyword sets C7 names.
C7_TimeKeys ==
    { <<"t", "i", "m", "e">>, <<"d", "a", "t", "e">>,
      <<"t", "i", "m", "e", "s", "t", "a", "m", "p">> }

C7_UnitKeys ==
    { <<"u", "n", "i", "t">>, <<"n", "a", "m", "e">>,
      <<"s", "o", "u", "r", "c", "e">>, <<"p", "l", "a", "y", "e", "r">>,
      <<"a", "c", "t", "o", "r">>, <<"t", "a", "r", "g", "e", "t">> }

C7_HpKeys ==
    { <<"h", "p">>, <<"h", "e", "a", "l", "t", "h">>, <<"l", "i", "f", "e">> }

C7_HasCell(row, keys) ==
    \E k \in 1..Len(row) : \E key \in keys : includes(Fold(row[k]), key)

\* C7: Standard mode is selected exactly when the first row has a cell with
\* a time keyword, a cell with a unit keyword {unit, name, source, player,
\* actor, target} and a cell with a health keyword; otherwise Narrative
\* mode is selected.
C7_Detection ==
    pc \in {"standard", "narrative"} =>
       (pc = "standard" <=>
           /\ C7_HasCell(rawRows[1], C7_TimeKeys)
           /\ C7_HasCell(rawRows[1], C7_UnitKeys)
           /\ C7_HasCell(rawRows[1], C7_HpKeys))

\* Zero-based index of the first cell that holds a keyword of the set.
C8_FirstCell(row, keys) ==
    Min({k \in 1..Len(row) : \E key \in keys : includes(Fold(row[k]), key)}
          \cup {Len(row) + 1}) - 1

\* C8: in Standard mode each resolved column index is the index of the
\* first header cell that satisfies the detection pattern of its category.
C8_SameRules ==
    pc = "standard" =>
       /\ timeIdx = C8_FirstCell(rawRows[1], C7_TimeKeys)
       /\ unitIdx = C8_FirstCell(rawRows[1], C7_UnitKeys)
       /\ hpIdx = C8_FirstCell(rawRows[1], C7_HpKeys)

\* The cells of a row on which a labelled figure matches.
C10_Cells(row, label) ==
    {k \in 1..Len(row) : MatchLabel(row[k], label).found}

\* The figure of the last matching cell, 0 when no cell matches.
C10_Figure(row, label) ==
    IF C10_Cells(row, label) = {} THEN 0
    ELSE MatchLabel(row[Max(C10_Cells(row, label))], label).val

\* An effect-trigger row with at least 8 cells whose cell 4 is the
\* damage-target marker.
C10_Qualifies(row) ==
    /\ Len(row) >= 8
    /\ includes(trim(row[3]), EffectMarker)
    /\ trim(row[5]) = DamageTargetMarker

\* Source unit and effect name are non-empty and a raw or legacy figure
\* is found in some cell.
C10_Emits(row) ==
    /\ trim(row[4]) # <<>>
    /\ trim(row[7]) # <<>>
    /\ C10_Cells(row, rawDamageLabel) \cup C10_Cells(row, oldDamageLabel) # {}

C10_Entry(row, idx) ==
    [ time            |-> RowTime(row, idx),
      unit            |-> trim(row[4]),
      effect          |-> trim(row[7]),
      rawDamage       |-> IF C10_Cells(row, rawDamageLabel) # {}
                            THEN C10_Figure(row, rawDamageLabel)
                            ELSE C10_Figure(row, oldDamageLabel),
      hpDeduction     |-> C10_Figure(row, hpDeductionLabel),
      shieldDeduction |-> C10_Figure(row, shieldDeductionLabel) ]

\* The result of the example of C10.
C10_Example ==
    (rawRows = <<RowSlamHit>> /\ pc = "done")
       => /\ Len(onDataLoadedCalls) = 1
          /\ onDataLoadedCalls[1].effectDamageEntries =
               << [ time            |-> Num(650, 1),
                    unit            |-> <<"C", "o", "w">>,
                    effect          |-> <<"S", "l", "a", "m", "_", "H", "i", "t">>,
                    rawDamage       |-> 800,
                    hpDeduction     |-> 0,
                    shieldDeduction |-> 0 ] >>

\* C10: in Narrative mode a qualifying damage row emits exactly one
\* DamageEffectEntry iff source unit and effect name are non-empty and a raw
\* or legacy damage figure is found; its rawDamage is that figure and its
\* hp and shield deductions are the matched figures or 0; any other row
\* emits no damage fact.
C10_DamageRows ==
    /\ []C10_Example
    /\ [][(pc = "narrative" /\ i' = i + 1) =>
            IF C10_Qualifies(rawRows[i + 1]) /\ C10_Emits(rawRows[i + 1])
              THEN effectDamageEntries' =
                     Append(effectDamageEntries, C10_Entry(rawRows[i + 1], i))
              ELSE effectDamageEntries' = effectDamageEntries]_vars

C10_Witness ==
    /\ pc = "done"
    /\ Len(effectDamageEntries) = 3
    /\ effectDamageEntries[1].rawDamage = 50
    /\ effectDamageEntries[1].hpDeduction = 30
    /\ effectDamageEntries[1].shieldDeduction = 20
    /\ effectDamageEntries[2].rawDamage = 12
    /\ effectDamageEntries[3].rawDamage = 800

\* One step of the narrative loop, over the row at zero-based index i.
NarrativeStepTaken ==
    pc = "narrative" /\ i' = i + 1

\* Source unit (cell 3) and effect name (cell 6) are non-empty.
C11_Named(row) ==
    /\ trim(row[4]) # <<>>
    /\ trim(row[7]) # <<>>

\* Some cell carries one of the three magnitudes (raw damage, under the
\* current or the legacy label, hp deduction, shield deduction).
C11_AnyMagnitude(row) ==
    C10_Cells(row, rawDamageLabel) \cup C10_Cells(row, oldDamageLabel)
      \cup C10_Cells(row, hpDeductionLabel)
      \cup C10_Cells(row, shieldDeductionLabel) # {}

\* Only an hp deduction or a shield deduction is matched, no raw or legacy
\* figure.
C11_DeductionOnly(row) ==
    /\ C10_Cells(row, rawDamageLabel) \cup C10_Cells(row, oldDamageLabel) = {}
    /\ C10_Cells(row, hpDeductionLabel) \cup C10_Cells(row, shieldDeductionLabel) # {}

\* C11 as stated: a qualifying row with source and effect name counts as a
\* damage fact whenever any of rawDamage, hpDeduction, shieldDeduction is
\* matched in some cell, also when only an hp or a shield deduction is.
C11_AnyMagnitudeCounts ==
    [][NarrativeStepTaken =>
         ((C10_Qualifies(rawRows[i + 1]) /\ C11_Named(rawRows[i + 1])
             /\ C11_AnyMagnitude(rawRows[i + 1]))
            => Len(effectDamageEntries') = Len(effectDamageEntries) + 1)]_vars

\* C11 amended: a qualifying row with source and effect name counts as a
\* damage fact exactly when a raw-damage figure, under the current or the
\* legacy label, is matched in some cell; a row on which only an hp
\* deduction or a shield deduction is matched leaves the damage facts
\* unchanged.
C11_RawOrLegacyCounts ==
    [][NarrativeStepTaken =>
         /\ Len(effectDamageEntries') \in
              {Len(effectDamageEntries), Len(effectDamageEntries) + 1}
         /\ (C10_Qualifies(rawRows[i + 1]) /\ C11_Named(rawRows[i + 1]))
              => (Len(effectDamageEntries') = Len(effectDamageEntries) + 1
                    <=> C10_Cells(rawRows[i + 1], rawDamageLabel)
                          \cup C10_Cells(rawRows[i + 1], oldDamageLabel) # {})
         /\ (C10_Qualifies(rawRows[i + 1]) /\ C11_DeductionOnly(rawRows[i + 1]))
              => effectDamageEntries' = effectDamageEntries]_vars

\* A qualifying, named row with only an hp deduction has been processed
\* and left no damage fact.
C11_Witness ==
    /\ pc = "narrative"
    /\ i = 1
    /\ C10_Qualifies(rawRows[1])
    /\ C11_Named(rawRows[1])
    /\ C11_DeductionOnly(rawRows[1])
    /\ effectDamageEntries = <<>>

\* The value of the first cell matching the label.
C12_First(row, label) ==
    MatchLabel(row[Min(C10_Cells(row, label))], label).val

\* An effect-trigger row with cells 3 and 6 present and non-empty.
C12_Usable(row) ==
    /\ Len(row) > 6
    /\ includes(trim(row[3]), EffectMarker)
    /\ trim(row[4]) # <<>>
    /\ trim(row[7]) # <<>>

\* C12: on every row a healing fact is appended exactly when the row is an
\* effect-trigger row whose cells 3 and 6 are non-empty and some cell
\* matches the healing pattern, and a shield fact exactly when some cell
\* matches the shield pattern; neither depends on the damage-target marker,
\* on a damage figure or on the other, each row gives at most one of each,
\* and the fact carries the value of the first matching cell.
C12_HealingShield ==
    [][NarrativeStepTaken =>
         /\ effectHealingEntries' =
              IF C12_Usable(rawRows[i + 1])
                   /\ C10_Cells(rawRows[i + 1], healingLabel) # {}
                THEN Append(effectHealingEntries,
                            [ time    |-> RowTime(rawRows[i + 1], i),
                              unit    |-> trim(rawRows[i + 1][4]),
                              effect  |-> trim(rawRows[i + 1][7]),
                              healing |-> C12_First(rawRows[i + 1], healingLabel) ])
                ELSE effectHealingEntries
         /\ effectShieldEntries' =
              IF C12_Usable(rawRows[i + 1])
                   /\ C10_Cells(rawRows[i + 1], shieldAddedLabel) # {}
                THEN Append(effectShieldEntries,
                            [ time   |-> RowTime(rawRows[i + 1], i),
                              unit   |-> trim(rawRows[i + 1][4]),
                              effect |-> trim(rawRows[i + 1][7]),
                              shieldValue |-> C12_First(rawRows[i + 1], shieldAddedLabel) ])
                ELSE effectShieldEntries]_vars

\* One row has given a damage fact, a healing fact and a shield fact.
C12_Witness ==
    /\ pc = "narrative"
    /\ i = 1
    /\ Len(effectDamageEntries) = 1
    /\ Len(effectHealingEntries) = 1
    /\ Len(effectShieldEntries) = 1

\* The cells that match the post-change pattern, and the generic pattern.
C13_ChangeCells(row) ==
    {k \in 1..Len(row) : hpChangeRegex(row[k]).found}

C13_GenericCells(row) ==
    {k \in 1..Len(row) : hpGenericRegex(row[k]).found}

C13_IsChange(row) ==
    includes(EventType(row), HpChangeMarker)

C13_IsCreate(row) ==
    includes(EventType(row), UnitCreateMarker)

\* A health value is found: on a health-change row by either pattern, on
\* a unit-create row by the generic pattern.
C13_HpFound(row) ==
    \/ C13_IsChange(row)
         /\ C13_ChangeCells(row) \cup C13_GenericCells(row) # {}
    \/ ~C13_IsChange(row) /\ C13_IsCreate(row) /\ C13_GenericCells(row) # {}

\* The health value: on a health-change row the post-change value of the
\* first cell carrying one, otherwise the generic value of the first cell
\* carrying one.
C13_Hp(row) ==
    IF C13_IsChange(row) /\ C13_ChangeCells(row) # {}
      THEN hpChangeRegex(row[Min(C13_ChangeCells(row))]).val
      ELSE hpGenericRegex(row[Min(C13_GenericCells(row))]).val

\* C13: a row adds at most one HealthEntry, and only when it is a
\* health-change or a unit-create row on which a health value is found;
\* the entry of a health-change row carries the post-change value when some
\* cell has one and the generic value only otherwise, the entry of a
\* unit-create row the generic value.
C13_HealthRows ==
    [][NarrativeStepTaken =>
         \/ entries' = entries
         \/ /\ C13_IsChange(rawRows[i + 1]) \/ C13_IsCreate(rawRows[i + 1])
            /\ C13_HpFound(rawRows[i + 1])
            /\ Len(entries') = Len(entries) + 1
            /\ SubSeq(entries', 1, Len(entries)) = entries
            /\ entries'[Len(entries')].originalRow = rawRows[i + 1]
            /\ entries'[Len(entries')].hp = Num(C13_Hp(rawRows[i + 1]), 1)]_vars

\* A health-change row with both a post-change and a different generic
\* value was emitted with the post-change value, and a unit-create row
\* carrying a post-change token was emitted with its generic value.
C13_Witness ==
    /\ pc = "done"
    /\ \E a \in 1..Len(entries) :
         /\ C13_IsChange(entries[a].originalRow)
         /\ C13_ChangeCells(entries[a].originalRow) # {}
         /\ C13_GenericCells(entries[a].originalRow) # {}
         /\ entries[a].hp = Num(420, 1)
         /\ hpGenericRegex(entries[a].originalRow[
              Min(C13_GenericCells(entries[a].originalRow))]).val = 500
    /\ \E b \in 1..Len(entries) :
         /\ C13_IsCreate(entries[b].originalRow)
         /\ C13_ChangeCells(entries[b].originalRow) # {}
         /\ entries[b].hp = Num(9, 1)

\* The known actors, by insertion position, that occur in some cell.
C14_ActorsIn(set, row) ==
    {k \in 1..Len(set) : \E c \in 1..Len(row) : includes(row[c], set[k])}

C14_Entry(row, idx, unit) ==
    [ time        |-> RowTime(row, idx),
      unit        |-> unit,
      hp          |-> Num(C13_Hp(row), 1),
      originalRow |-> row ]

\* C14: a health row with an empty name whose identifier was bound by an
\* earlier row is emitted under the bound name, whatever known actors occur
\* in its cells.
C14_BoundNameFirst ==
    [][NarrativeStepTaken =>
         ((/\ PotentialUnit(rawRows[i + 1]) = <<>>
           /\ RowUid(rawRows[i + 1]) # <<>>
           /\ MapHas(unitMap, RowUid(rawRows[i + 1]))
           /\ C13_HpFound(rawRows[i + 1]))
            => entries' =
                 Append(entries,
                        C14_Entry(rawRows[i + 1], i,
                                  MapGet(unitMap, RowUid(rawRows[i + 1])))))]_vars

\* The last row processed had no name, a bound identifier and another
\* known actor in its cells, and was emitted under the bound name.
C14_Witness ==
    /\ pc = "narrative"
    /\ i >= 1
    /\ PotentialUnit(rawRows[i]) = <<>>
    /\ RowUid(rawRows[i]) # <<>>
    /\ MapHas(unitMap, RowUid(rawRows[i]))
    /\ Len(entries) >= 1
    /\ entries[Len(entries)].originalRow = rawRows[i]
    /\ entries[Len(entries)].unit = MapGet(unitMap, RowUid(rawRows[i]))
    /\ \E k \in C14_ActorsIn(unitsSet, rawRows[i]) :
         unitsSet[k] # entries[Len(entries)].unit

\* The row yields both a name and an identifier, so it binds them.
C15_Binds(row) ==
    PotentialUnit(row) # <<>> /\ RowUid(row) # <<>>

\* The row has an empty name, an identifier and a health value.
C15_Nameless(row) ==
    /\ PotentialUnit(row) = <<>>
    /\ RowUid(row) # <<>>
    /\ C13_HpFound(row)

\* The names some row of the file binds to the identifier.
C15_NamesOf(uid) ==
    {PotentialUnit(rawRows[b]) :
       b \in {k \in 1..Len(rawRows) :
                C15_Binds(rawRows[k]) /\ RowUid(rawRows[k]) = uid}}

\* C15 as stated: when the file has been processed, every health row with
\* an empty name and identifier I has been emitted under a name bound to
\* I, whether the binding row comes before it or after it.
C15_BothDirections ==
    pc = "done" =>
      \A r \in 1..Len(rawRows) :
        (C15_Nameless(rawRows[r]) /\ C15_NamesOf(RowUid(rawRows[r])) # {})
          => \E e \in 1..Len(entries) :
               /\ entries[e].originalRow = rawRows[r]
               /\ entries[e].unit \in C15_NamesOf(RowUid(rawRows[r]))

\* C15 amended: names propagate forward only. A health row with an empty
\* name and identifier I is emitted under the name bound to I when an
\* earlier row bound I; when no earlier row did, the row is emitted only
\* under a known actor found by the substring fallback and is otherwise
\* dropped, and no later row changes or adds to what earlier rows emitted.
C15_ForwardOnly ==
    [][NarrativeStepTaken =>
         /\ Len(entries') >= Len(entries)
         /\ SubSeq(entries', 1, Len(entries)) = entries
         /\ \A e \in (Len(entries) + 1)..Len(entries') :
              entries'[e].originalRow = rawRows[i + 1]
         /\ C15_Nameless(rawRows[i + 1]) =>
              IF MapHas(unitMap, RowUid(rawRows[i + 1]))
                THEN /\ Len(entries') = Len(entries) + 1
                     /\ entries'[Len(entries')].unit =
                          MapGet(unitMap, RowUid(rawRows[i + 1]))
                ELSE \/ entries' = entries
                     \/ /\ Len(entries') = Len(entries) + 1
                        /\ \E k \in C14_ActorsIn(unitsSet, rawRows[i + 1]) :
                             entries'[Len(entries')].unit = unitsSet[k]]_vars

\* The file is processed; a nameless health row came before the only rows
\* that bind its identifier, and no entry was emitted for it.
C15_Witness ==
    /\ pc = "done"
    /\ \E r \in 1..Len(rawRows) :
         /\ C15_Nameless(rawRows[r])
         /\ C15_NamesOf(RowUid(rawRows[r])) # {}
         /\ \A b \in 1..Len(rawRows) :
              (C15_Binds(rawRows[b]) /\ RowUid(rawRows[b]) = RowUid(rawRows[r]))
                => b > r
         /\ \A e \in 1..Len(entries) : entries[e].originalRow # rawRows[r]

\* C16 as stated: a binding of the identity table is never overwritten.
C16_NeverOverwritten ==
    [][NarrativeStepTaken =>
         \A k \in 1..Len(unitMap) :
           /\ MapHas(unitMap', unitMap[k][1])
           /\ MapGet(unitMap', unitMap[k][1]) = unitMap[k][2]]_vars

\* The processed rows that bind the identifier.
C16_Binders(uid) ==
    {k \in 1..i :
       C15_Binds(rawRows[k]) /\ RowUid(rawRows[k]) = uid}

\* C16 amended: a binding is overwritten by every later row that binds the
\* same identifier: after any sequence of rows the table maps exactly the
\* identifiers bound so far, each to the name of the last row that bound
\* it.
C16_LastWriterWins ==
    pc \in {"narrative", "done"} =>
      /\ \A k \in 1..Len(unitMap) : C16_Binders(unitMap[k][1]) # {}
      /\ \A r \in 1..i :
           C15_Binds(rawRows[r]) =>
             /\ MapHas(unitMap, RowUid(rawRows[r]))
             /\ MapGet(unitMap, RowUid(rawRows[r])) =
                  PotentialUnit(rawRows[Max(C16_Binders(RowUid(rawRows[r])))])

\* Two processed rows bound the same identifier to different names and the
\* table holds the later name.
C16_Witness ==
    /\ pc = "narrative"
    /\ \E a, b \in 1..i :
         /\ a < b
         /\ C15_Binds(rawRows[a]) /\ C15_Binds(rawRows[b])
         /\ RowUid(rawRows[a]) = RowUid(rawRows[b])
         /\ PotentialUnit(rawRows[a]) # PotentialUnit(rawRows[b])
         /\ MapGet(unitMap, RowUid(rawRows[b])) = PotentialUnit(rawRows[b])

\* C17: a row with an empty name and no bound identifier is emitted exactly
\* when a health value is found and some known actor occurs in one of its
\* cells, under the first such actor in insertion order; otherwise it
\* gives no HealthEntry.
C17_SubstringFallback ==
    [][NarrativeStepTaken =>
         ((/\ PotentialUnit(rawRows[i + 1]) = <<>>
           /\ \/ RowUid(rawRows[i + 1]) = <<>>
              \/ ~MapHas(unitMap, RowUid(rawRows[i + 1])))
            => entries' =
                 IF C13_HpFound(rawRows[i + 1])
                      /\ C14_ActorsIn(unitsSet, rawRows[i + 1]) # {}
                   THEN Append(entries,
                          C14_Entry(rawRows[i + 1], i,
                            unitsSet[Min(C14_ActorsIn(unitsSet, rawRows[i + 1]))]))
                   ELSE entries)]_vars

\* The last row processed had no name and no identifier, two known actors
\* occur in it, and it was emitted under the one inserted first.
C17_Witness ==
    /\ pc = "narrative"
    /\ i >= 1
    /\ PotentialUnit(rawRows[i]) = <<>>
    /\ RowUid(rawRows[i]) = <<>>
    /\ Cardinality(C14_ActorsIn(unitsSet, rawRows[i])) >= 2
    /\ Len(entries) >= 1
    /\ entries[Len(entries)].originalRow = rawRows[i]
    /\ entries[Len(entries)].unit =
         unitsSet[Min(C14_ActorsIn(unitsSet, rawRows[i]))]

\* ------------------------------------------------------- health chart
\* The health entries HpChart is given, and whether it is mounted.
C18_Entries ==
    data[1].entries

\* The entries of the unit with time <= t, by arrival position.
C18_Seen(u, t) ==
    {k \in 1..Len(C18_Entries) :
       /\ C18_Entries[k].unit = u
       /\ ~Gt(C18_Entries[k].time, t)}

\* The entry of greatest time in E, the last-arriving one on ties.
C18_Latest(E) ==
    CHOOSE k \in E :
      \A j \in E :
        \/ Lt(C18_Entries[j].time, C18_Entries[k].time)
        \/ C18_Entries[j].time = C18_Entries[k].time /\ j <= k

\* C18: every point at time T carries, for every selected unit U, a value
\* exactly when U has an entry with time <= T, and that value is the hp of
\* U's entry of greatest time <= T, the last-arriving one on ties; without
\* such an entry the point has no value for U at all.
C18_ForwardFill ==
    data # <<>> =>
      \A p \in 1..Len(chartData) :
        \A u \in Range(selectedUnits) :
          IF C18_Seen(u, chartData[p][TimeKey]) = {}
            THEN u \notin DOMAIN chartData[p]
            ELSE /\ u \in DOMAIN chartData[p]
                 /\ chartData[p][u] =
                      C18_Entries[C18_Latest(C18_Seen(u, chartData[p][TimeKey]))].hp

\* Entries arrived out of time order, two entries of one selected unit
\* share a time with different hp, one point carries a value of a unit
\* that has no entry at that time, and one point lacks a selected unit.
C18_Witness ==
    /\ data # <<>>
    /\ \E j, k \in 1..Len(C18_Entries) :
         j < k /\ Gt(C18_Entries[j].time, C18_Entries[k].time)
    /\ \E j, k \in 1..Len(C18_Entries) :
         /\ j < k
         /\ C18_Entries[j].unit = C18_Entries[k].unit
         /\ C18_Entries[j].unit \in Range(selectedUnits)
         /\ C18_Entries[j].time = C18_Entries[k].time
         /\ C18_Entries[j].hp # C18_Entries[k].hp
    /\ \E p \in 1..Len(chartData) : \E u \in Range(selectedUnits) :
         /\ u \in DOMAIN chartData[p]
         /\ \A k \in 1..Len(C18_Entries) :
              C18_Entries[k].unit = u
                => C18_Entries[k].time # chartData[p][TimeKey]
    /\ \E p \in 1..Len(chartData) : \E u \in Range(selectedUnits) :
         u \notin DOMAIN chartData[p]

\* The times of the entries of the selected units.
C19_Times ==
    {C18_Entries[k].time :
       k \in {j \in 1..Len(C18_Entries) :
                C18_Entries[j].unit \in Range(selectedUnits)}}

\* The worked example: unit A alone selected, entries A@0 = 100, A@10 = 80.
C19_Example ==
    (/\ data # <<>>
     /\ selectedUnits = << <<"A">> >>
     /\ C18_Entries = <<HpLogEntry(0, <<"A">>, 100), HpLogEntry(10, <<"A">>, 80)>>)
      => chartData =
           << (TimeKey :> Num(0, 1)) @@ (<<"A">> :> Num(100, 1)),
              (TimeKey :> Num(10, 1)) @@ (<<"A">> :> Num(80, 1)) >>

\* C19: the chart has exactly one point for each distinct time among the
\* entries of the selected units and no other point, the points are in
\* strictly increasing time order, and every point carries the value of at
\* least one selected unit.
C19_OnePointPerTime ==
    /\ C19_Example
    /\ data # <<>> =>
         /\ Len(chartData) = Cardinality(C19_Times)
         /\ {chartData[p][TimeKey] : p \in 1..Len(chartData)} = C19_Times
         /\ \A p \in 1..(Len(chartData) - 1) :
              Lt(chartData[p][TimeKey], chartData[p + 1][TimeKey])
         /\ \A p \in 1..Len(chartData) :
              (DOMAIN chartData[p]) \cap Range(selectedUnits) # {}

\* Two selected units have entries at one time, entries arrived out of
\* time order, an unselected unit has an entry at a time of its own, and
\* the chart has two points.
C19_Witness ==
    /\ data # <<>>
    /\ Len(chartData) = 2
    /\ \E j, k \in 1..Len(C18_Entries) :
         /\ C18_Entries[j].unit # C18_Entries[k].unit
         /\ {C18_Entries[j].unit, C18_Entries[k].unit} \subseteq Range(selectedUnits)
         /\ C18_Entries[j].time = C18_Entries[k].time
    /\ \E j, k \in 1..Len(C18_Entries) :
         /\ j < k
         /\ C18_Entries[j].unit \in Range(selectedUnits)
         /\ C18_Entries[k].unit \in Range(selectedUnits)
         /\ Gt(C18_Entries[j].time, C18_Entries[k].time)

\* The entries of the unit, by arrival position.
C20_Own(u) ==
    {k \in 1..Len(C18_Entries) : C18_Entries[k].unit = u}

\* The chronologically earliest entry, the first-arriving one on ties.
C20_First(E) ==
    CHOOSE k \in E :
      \A j \in E :
        \/ Lt(C18_Entries[k].time, C18_Entries[j].time)
        \/ C18_Entries[j].time = C18_Entries[k].time /\ k <= j

\* C20: with exactly one selected unit that has entries the summary is the
\* least and the greatest hp of its entries, the hp of its chronologically
\* latest entry, and as net change that hp minus the hp of its
\* chronologically earliest entry; with another number of selected units,
\* or a unit without entries, there is no summary.
C20_SingleUnitStats ==
    data # <<>> =>
      IF Len(selectedUnits) # 1 \/ C20_Own(selectedUnits[1]) = {}
        THEN singleUnitStats = <<>>
        ELSE /\ Len(singleUnitStats) = 1
             /\ \E k \in C20_Own(selectedUnits[1]) :
                  singleUnitStats[1].minHp = C18_Entries[k].hp
             /\ \A k \in C20_Own(selectedUnits[1]) :
                  ~Lt(C18_Entries[k].hp, singleUnitStats[1].minHp)
             /\ \E k \in C20_Own(selectedUnits[1]) :
                  singleUnitStats[1].maxHp = C18_Entries[k].hp
             /\ \A k \in C20_Own(selectedUnits[1]) :
                  ~Gt(C18_Entries[k].hp, singleUnitStats[1].maxHp)
             /\ singleUnitStats[1].currentHp =
                  C18_Entries[C18_Latest(C20_Own(selectedUnits[1]))].hp
             /\ singleUnitStats[1].trend =
                  Num(C18_Entries[C18_Latest(C20_Own(selectedUnits[1]))].hp.n
                        - C18_Entries[C20_First(C20_Own(selectedUnits[1]))].hp.n, 1)

\* One unit is selected, its entries arrived latest first, and the summary
\* shows a loss of 20 between the earliest and the latest entry.
C20_Witness ==
    /\ data # <<>>
    /\ Len(selectedUnits) = 1
    /\ Len(singleUnitStats) = 1
    /\ \E j, k \in C20_Own(selectedUnits[1]) :
         j < k /\ Gt(C18_Entries[j].time, C18_Entries[k].time)
    /\ singleUnitStats[1].minHp = Num(80, 1)
    /\ singleUnitStats[1].maxHp = Num(100, 1)
    /\ singleUnitStats[1].currentHp = Num(80, 1)
    /\ singleUnitStats[1].trend = Num(-20, 1)

\* -------------------------------------------------------------------- C28
\* The three header cells the resolved indices point at.
C28_Resolved ==
    /\ timeIdx \in 0..(Len(rawRows[1]) - 1)
    /\ unitIdx \in 0..(Len(rawRows[1]) - 1)
    /\ hpIdx \in 0..(Len(rawRows[1]) - 1)
    /\ TestAny(rawRows[1][timeIdx + 1], ResolveTimeKeys)
    /\ TestAny(rawRows[1][unitIdx + 1], ResolveUnitKeys)
    /\ TestAny(rawRows[1][hpIdx + 1], ResolveHpKeys)

\* C28: whenever format detection selects Standard mode, timeIdx, unitIdx
\* and hpIdx are each resolved to a position of the header row whose cell
\* passes the resolution pattern, and the run never ends in the schema
\* error: no first row passes detection and fails column resolution.
C28_NoSchemaError ==
    /\ error # "schema"
    /\ (pc # "idle" /\ Len(rawRows) > 0 /\ hasStandardHeaders(rawRows[1]))
         => (pc \in {"standard", "done"} /\ C28_Resolved)

\* Standard mode was selected for the header tick, Time, Name, HP: detection
\* passed on the cell Time, and the time column resolved to the cell tick,
\* which only the resolution pattern accepts.
C28_Witness ==
    /\ pc = "standard"
    /\ rawRows[1] = HdrTickTimeNameHp
    /\ ~TestAny(rawRows[1][1], DetectTimeKeys)
    /\ timeIdx = 0
    /\ unitIdx = 2
    /\ hpIdx = 3

\* -------------------------------------------------------------------- C30
\* The health series of the selected unit's first entry alone: the
\* earliest-arriving one at its minimum timestamp.
C30_FirstAlone ==
    HpChartData(<<C18_Entries[C20_First(C20_Own(selectedUnits[1]))]>>,
                selectedUnits)

\* C30: with exactly one selected unit that has entries, the current health
\* of the summary is the unit's value in the last point of the health
\* series, and the first health of the summary (the current health minus
\* the net change) is the value the unit has in the series of its
\* earliest-arriving entry at its minimum timestamp alone; in any arrival
\* order and with entries sharing a timestamp.
C30_SummaryAgreesWithSeries ==
    (data # <<>> /\ Len(selectedUnits) = 1 /\ C20_Own(selectedUnits[1]) # {})
      => /\ Len(singleUnitStats) = 1
         /\ Len(chartData) > 0
         /\ selectedUnits[1] \in DOMAIN chartData[Len(chartData)]
         /\ singleUnitStats[1].currentHp =
              chartData[Len(chartData)][selectedUnits[1]]
         /\ Len(C30_FirstAlone) = 1
         /\ Sub(singleUnitStats[1].currentHp, singleUnitStats[1].trend) =
              C30_FirstAlone[1][selectedUnits[1]]

\* One unit is selected; two of its entries share its minimum timestamp
\* with different hp, and a later-timed entry arrived before them.
C30_Witness ==
    /\ data # <<>>
    /\ Len(selectedUnits) = 1
    /\ Len(singleUnitStats) = 1
    /\ \E h, j, k \in C20_Own(selectedUnits[1]) :
         /\ h < j
         /\ j < k
         /\ C18_Entries[j].time = C18_Entries[k].time
         /\ C18_Entries[j].hp # C18_Entries[k].hp
         /\ Gt(C18_Entries[h].time, C18_Entries[j].time)
         /\ singleUnitStats[1].currentHp = C18_Entries[h].hp
         /\ singleUnitStats[1].trend =
              Sub(C18_Entries[h].hp, C18_Entries[j].hp)

\* -------------------------------------------------------------------- C25
\* C25: in every state reached from raw = true, hp = false, shield = false
\* by change events of the three check boxes, with any checked value, at
\* least one of dmgModeRaw, dmgModeHp and dmgModeShield is true.
C25_OneFlagEnabled ==
    dmgModeRaw \/ dmgModeHp \/ dmgModeShield

\* The shield flag is the only enabled one, and the damage chart is
\* computed with it.
C25_Witness ==
    /\ chartMode = "effect"
    /\ dmgModeShield
    /\ ~dmgModeRaw
    /\ ~dmgModeHp
    /\ cumulativeChartData # <<>>

\* -------------------------------------------------------------------- C26
\* C26 as stated: after a change event that checks a flag, that flag is
\* the only enabled one, whichever of the three it is.
C26_EnablingClearsOthers ==
    [][ /\ handleRawChange(TRUE)
          => (dmgModeRaw' /\ ~dmgModeHp' /\ ~dmgModeShield')
        /\ handleHpChange(TRUE)
          => (dmgModeHp' /\ ~dmgModeRaw' /\ ~dmgModeShield')
        /\ handleShieldChange(TRUE)
          => (dmgModeShield' /\ ~dmgModeRaw' /\ ~dmgModeHp') ]_vars

\* C26: after a change event that checks the raw flag, raw is the only
\* enabled flag; after one that checks the hp-deduction flag or the
\* shield-deduction flag, that flag is enabled, raw is disabled, and the
\* other deduction flag has the value it had before.
C26_EnablingClearsRaw ==
    [][ /\ handleRawChange(TRUE)
          => (dmgModeRaw' /\ ~dmgModeHp' /\ ~dmgModeShield')
        /\ handleHpChange(TRUE)
          => (dmgModeHp' /\ ~dmgModeRaw' /\ dmgModeShield' = dmgModeShield)
        /\ handleShieldChange(TRUE)
          => (dmgModeShield' /\ ~dmgModeRaw' /\ dmgModeHp' = dmgModeHp) ]_vars

\* Both deduction flags are enabled, one checked after the other, and the
\* chart of the fact A - S with 3 hp and 2 shield deducted shows 5.
C26_Witness ==
    /\ chartMode = "effect"
    /\ dmgModeHp
    /\ dmgModeShield
    /\ ~dmgModeRaw
    /\ Len(cumulativeChartData) = 1
    /\ Len(cumulativeChartData[1].data) = 1
    /\ SeriesKey(<<"A">>, <<"S">>) \in DOMAIN cumulativeChartData[1].data[1]
    /\ cumulativeChartData[1].data[1][SeriesKey(<<"A">>, <<"S">>)] = Num(5, 1)

\* -------------------------------------------------------------------- C27
\* C27 as stated: a change event that un-checks the only enabled flag
\* leaves all three flags as they were, whichever flag it is.
C27_LastFlagNoOp ==
    [][ /\ (dmgModeRaw /\ ~dmgModeHp /\ ~dmgModeShield /\ handleRawChange(FALSE))
          => UNCHANGED <<dmgModeRaw, dmgModeHp, dmgModeShield>>
        /\ (~dmgModeRaw /\ dmgModeHp /\ ~dmgModeShield /\ handleHpChange(FALSE))
          => UNCHANGED <<dmgModeRaw, dmgModeHp, dmgModeShield>>
        /\ (~dmgModeRaw /\ ~dmgModeHp /\ dmgModeShield /\ handleShieldChange(FALSE))
          => UNCHANGED <<dmgModeRaw, dmgModeHp, dmgModeShield>> ]_vars

\* C27: after a change event that un-checks the only enabled flag, raw is
\* the only enabled flag: un-checking raw leaves all three flags as they
\* were, un-checking hp-deduction or shield-deduction clears that flag and
\* enables raw in its place.
C27_LastFlagFallsBackToRaw ==
    [][ /\ (dmgModeRaw /\ ~dmgModeHp /\ ~dmgModeShield /\ handleRawChange(FALSE))
          => UNCHANGED <<dmgModeRaw, dmgModeHp, dmgModeShield>>
        /\ (~dmgModeRaw /\ dmgModeHp /\ ~dmgModeShield /\ handleHpChange(FALSE))
          => (dmgModeRaw' /\ ~dmgModeHp' /\ ~dmgModeShield')
        /\ (~dmgModeRaw /\ ~dmgModeHp /\ dmgModeShield /\ handleShieldChange(FALSE))
          => (dmgModeRaw' /\ ~dmgModeHp' /\ ~dmgModeShield') ]_vars

\* The hp-deduction flag is the only enabled one, and the damage chart is
\* computed with it: the state in which un-checking it enables raw.
C27_Witness ==
    /\ chartMode = "effect"
    /\ dmgModeHp
    /\ ~dmgModeRaw
    /\ ~dmgModeShield
    /\ cumulativeChartData # <<>>

\* -------------------------------------------------------------------- C29
\* C29: in every state reached from the initial flags by the three change
\* handlers, dmgModeRaw is not enabled together with dmgModeHp or with
\* dmgModeShield, so that two flags are enabled together only when they
\* are hp-deduction and shield-deduction.
C29_RawExcludesDeductions ==
    /\ dmgModeRaw => (~dmgModeHp /\ ~dmgModeShield)
    /\ Cardinality({f \in {"raw", "hp", "shield"} :
                      \/ f = "raw" /\ dmgModeRaw
                      \/ f = "hp" /\ dmgModeHp
                      \/ f = "shield" /\ dmgModeShield}) = 2
         => (dmgModeHp /\ dmgModeShield)

\* The hp-deduction and the shield-deduction flag are enabled together.
C29_Witness ==
    /\ dmgModeHp
    /\ dmgModeShield
    /\ ~dmgModeRaw

\* -------------------------------------------------------------------- C21
\* The fact collection, the label of a fact and the selected labels of the
\* mounted cumulative chart.
C21_Facts ==
    CASE chartMode = "skill"   -> data[1].skillEntries
      [] chartMode = "effect"  -> data[1].effectDamageEntries
      [] chartMode = "healing" -> data[1].effectHealingEntries
      [] chartMode = "shield"  -> data[1].effectShieldEntries

C21_Label(f) ==
    IF chartMode = "skill" THEN f.skill ELSE f.effect

C21_SelectedLabels ==
    CASE chartMode = "skill"   -> selectedSkills
      [] chartMode = "effect"  -> selectedEffects
      [] chartMode = "healing" -> selectedHealingEffects
      [] chartMode = "shield"  -> selectedShieldEffects

\* The increment of one fact, as an integer.
C21_Increment(f) ==
    CASE chartMode = "skill"   -> 1
      [] chartMode = "effect"  ->
           (IF dmgModeRaw THEN f.rawDamage.n ELSE 0)
             + (IF dmgModeHp THEN f.hpDeduction.n ELSE 0)
             + (IF dmgModeShield THEN f.shieldDeduction.n ELSE 0)
      [] chartMode = "healing" -> f.healing.n
      [] chartMode = "shield"  -> f.shieldValue.n

\* A fact of the unit and the label that passes the filter of the selected
\* units and labels and has a time not after t.
C21_Counts(f, u, l, t) ==
    /\ f.unit = u
    /\ C21_Label(f) = l
    /\ u \in Range(selectedUnits)
    /\ l \in Range(C21_SelectedLabels)
    /\ ~Gt(f.time, t)

\* The sum of the increments of such facts among the first k.
RECURSIVE C21_Sum(_, _, _, _)
C21_Sum(k, u, l, t) ==
    IF k = 0 THEN 0
    ELSE C21_Sum(k - 1, u, l, t)
           + (IF C21_Counts(C21_Facts[k], u, l, t)
                THEN C21_Increment(C21_Facts[k]) ELSE 0)

C21_Units ==
    {C21_Facts[k].unit : k \in 1..Len(C21_Facts)}

C21_Labels ==
    {C21_Label(C21_Facts[k]) : k \in 1..Len(C21_Facts)}

\* C21: in every point, at time T, of the skill, damage, healing or shield
\* chart, the value of the key of a unit and a label is the sum of the
\* increments of the facts of that unit and label that pass the filter of
\* the selected units and labels and have a time <= T: 1 per fact in skill
\* mode, the enabled ones of rawDamage, hpDeduction and shieldDeduction in
\* damage mode, healing in healing mode, shieldValue in shield mode.  The
\* key has no value exactly when that sum is 0, and a point has no other
\* keys, so that facts of unselected units or labels contribute nothing.
C21_CumulativeLaw ==
    cumulativeChartData # <<>> =>
      \A j \in 1..Len(cumulativeChartData[1].data) :
        LET p == cumulativeChartData[1].data[j]
        IN  /\ TimeKey \in DOMAIN p
            /\ DOMAIN p \subseteq
                 {TimeKey} \cup {SeriesKey(u, l) : u \in C21_Units, l \in C21_Labels}
            /\ \A u \in C21_Units, l \in C21_Labels :
                 LET sum == C21_Sum(Len(C21_Facts), u, l, p[TimeKey])
                 IN  IF sum > 0
                       THEN /\ SeriesKey(u, l) \in DOMAIN p
                            /\ p[SeriesKey(u, l)] = Num(sum, 1)
                       ELSE SeriesKey(u, l) \notin DOMAIN p

\* The damage chart with the hp and the shield component enabled: A - S was
\* hit at the times 0 and 5 for 3 + 2 each and shows 10 at time 5, while
\* the fact of the unselected unit B is in no point.
C21_Witness ==
    /\ chartMode = "effect"
    /\ ~dmgModeRaw
    /\ dmgModeHp
    /\ dmgModeShield
    /\ selectedUnits = <<(<<"A">>)>>
    /\ \E k \in 1..Len(C21_Facts) : C21_Facts[k].unit = <<"B">>
    /\ Len(cumulativeChartData) = 1
    /\ Len(cumulativeChartData[1].data) = 2
    /\ cumulativeChartData[1].data[1] =
         SetKey(SetKey(EmptyObject, TimeKey, Num(0, 1)),
                SeriesKey(<<"A">>, <<"S">>), Num(5, 1))
    /\ cumulativeChartData[1].data[2] =
         SetKey(SetKey(EmptyObject, TimeKey, Num(5, 1)),
                SeriesKey(<<"A">>, <<"S">>), Num(10, 1))

\* -------------------------------------------------------------------- C22
\* The series keys of a point.
C22_Keys(p) ==
    (DOMAIN p) \ {TimeKey}

\* A fact that passes the filter, has the series key and the time t.
C22_EventAt(key, t) ==
    \E k \in 1..Len(C21_Facts) :
      /\ SeriesKey(C21_Facts[k].unit, C21_Label(C21_Facts[k])) = key
      /\ C21_Facts[k].unit \in Range(selectedUnits)
      /\ C21_Label(C21_Facts[k]) \in Range(C21_SelectedLabels)
      /\ C21_Facts[k].time = t

\* C22: the points of a cumulative chart are in strictly increasing time
\* order; from one point to the next a key keeps its value unless a fact
\* that passes the filter has that key and the time of the later point; a
\* key of a point is a key of the next point, with a value that is not
\* smaller.
C22_StepAfter ==
    cumulativeChartData # <<>> =>
      \A j \in 1..(Len(cumulativeChartData[1].data) - 1) :
        LET p == cumulativeChartData[1].data[j]
            q == cumulativeChartData[1].data[j + 1]
        IN  /\ Lt(p[TimeKey], q[TimeKey])
            /\ C22_Keys(p) \subseteq C22_Keys(q)
            /\ \A key \in C22_Keys(p) : ~Lt(q[key], p[key])
            /\ \A key \in C22_Keys(q) :
                 (key \notin C22_Keys(p) \/ q[key] # p[key])
                   => C22_EventAt(key, q[TimeKey])

\* A chart of two points in which one key holds its value, having no fact
\* at the later time, and another key appears at the later time.
C22_Witness ==
    /\ Len(cumulativeChartData) = 1
    /\ Len(cumulativeChartData[1].data) = 2
    /\ \E key \in C22_Keys(cumulativeChartData[1].data[1]) :
         /\ cumulativeChartData[1].data[2][key] = cumulativeChartData[1].data[1][key]
         /\ ~C22_EventAt(key, cumulativeChartData[1].data[2][TimeKey])
    /\ C22_Keys(cumulativeChartData[1].data[2])
         # C22_Keys(cumulativeChartData[1].data[1])

\* -------------------------------------------------------------------- C23
\* C23: the key list a cumulative chart returns with its points holds the
\* series keys that are present: every key of the list has a value in at
\* least one returned point, and every key of a returned point is in the
\* list; in damage mode for every state of the three flags.
C23_KeysPresent ==
    cumulativeChartData # <<>> =>
      /\ \A key \in Range(cumulativeChartData[1].keys) :
           \E j \in 1..Len(cumulativeChartData[1].data) :
             key \in C22_Keys(cumulativeChartData[1].data[j])
      /\ \A j \in 1..Len(cumulativeChartData[1].data) :
           C22_Keys(cumulativeChartData[1].data[j])
             \subseteq Range(cumulativeChartData[1].keys)

\* -------------------------------------------------------------------- C24
\* What a cumulative chart aggregates: the facts, the selections, the chart
\* mode and the three flags.
C24_Inputs ==
    <<data, selectedUnits, selectedSkills, selectedEffects,
      selectedHealingEffects, selectedShieldEffects, chartMode,
      dmgModeRaw, dmgModeHp, dmgModeShield>>

====
